---- MODULE Spec2Model ----
(***************************************************************************)
(* Model of the listing persistence engine of pinkbike_crawler:            *)
(* listing.Listing values as produced by RawListing.PostProcess, and       *)
(* DBExporter.Export reconciling a batch of them against the SQLite tables *)
(* listings and price_history inside one transaction.                      *)
(*                                                                         *)
(* Strings are sequences of one-character strings, so that lower-casing,   *)
(* joining and substring tests are computed rather than assumed.           *)
(* Time is counted in units of 12 hours.                                   *)
(***************************************************************************)
EXTENDS Integers, Sequences, FiniteSets, TLC

(***************************************************************************)
(* Bounds of the model.                                                    *)
(***************************************************************************)
\* number of times the clock is seen to advance in one behaviour
MaxTicks == 1
\* longest batch handed to Export
MaxBatch == 2
\* number of Export calls that commit in one behaviour
MaxExports == 3
\* number of listings committed in one behaviour, over all calls
MaxUpserts == 3
\* number of words in a listing title
MaxWords == 3

(***************************************************************************)
(* Policy constants of the code, in 12-hour units.                         *)
(***************************************************************************)
\* 12-hour units per day: datetime('now', '-1 day')
Day == 2
\* datetime('now', '-7 days')
Week == 7 * Day
\* amounts by which the wall clock is seen to advance between two calls
TickSteps == {1, Week + 1}
\* amounts by which it is seen to advance between two statements of one call
InCallSteps == {1}

(***************************************************************************)
(* Strings.                                                                *)
(***************************************************************************)
Upper == <<"A","B","C","D","E","F","G","H","I","J","K","L","M",
           "N","O","P","Q","R","S","T","U","V","W","X","Y","Z">>
Lower == <<"a","b","c","d","e","f","g","h","i","j","k","l","m",
           "n","o","p","q","r","s","t","u","v","w","x","y","z">>

\* the lower-case letter of each upper-case letter
UpperToLower ==
  [c \in {Upper[k] : k \in 1..26} |-> Lower[CHOOSE k \in 1..26 : Upper[k] = c]]

\* strings.ToLower on one character
ToLowerChar(c) ==
  IF c \in DOMAIN UpperToLower THEN UpperToLower[c] ELSE c

\* strings.ToLower
ToLower(s) == [k \in 1..Len(s) |-> ToLowerChar(s[k])]

\* strings.Contains
Contains(s, sub) ==
  \E k \in 0..(Len(s) - Len(sub)) : SubSeq(s, k + 1, k + Len(sub)) = sub

RECURSIVE Join(_, _)
\* strings.Join
Join(parts, sep) ==
  IF Len(parts) = 0 THEN <<>>
  ELSE IF Len(parts) = 1 THEN parts[1]
  ELSE parts[1] \o sep \o Join(Tail(parts), sep)

NoManufacturer == <<"N","o","M","a","n","u","f","a","c","t","u","r","e","r">>
NoModelFound == <<"N","o","M","o","d","e","l","F","o","u","n","d">>
Electric == <<"E","l","e","c","t","r","i","c">>

(***************************************************************************)
(* listing.Listing: identity and validation.                               *)
(***************************************************************************)
\* a hash that also digests the price
ComputeHashWithPrice(l) ==
  Join(<<ToLower(l.Title), l.Year, l.Model, ToLower(l.Condition),
         ToLower(l.FrameSize), ToLower(l.FrameMaterial),
         l.FrontTravel, l.RearTravel, l.Price>>, <<"|">>)

\* Listing.ComputeHash; the SHA-256 digest is taken as injective, so the
\* hash is represented by the delimited string that is digested
ComputeHash(l) ==
  Join(<<ToLower(l.Title), l.Year, l.Model, ToLower(l.Condition),
         ToLower(l.FrameSize), ToLower(l.FrameMaterial),
         l.FrontTravel, l.RearTravel>>, <<"|">>)

\* a validation that checks the year before the price
validateListingYearFirst(l) ==
  IF l.Year = <<>> THEN <<"y","e","a","r">>
  ELSE IF l.Price = <<>> \/ l.Price = <<"0">> THEN <<"p","r","i","c","e">>
  ELSE IF l.Manufacturer = NoManufacturer \/ l.Manufacturer = <<>>
    THEN <<"m","a","n","u","f","a","c","t","u","r","e","r">>
  ELSE IF l.Model = NoModelFound \/ Contains(l.Model, Electric) \/ l.Model = <<>>
    THEN <<"m","o","d","e","l">>
  ELSE IF l.Currency = <<>> THEN <<"c","u","r","r","e","n","c","y">>
  ELSE IF l.Condition = <<>> THEN <<"c","o","n","d","i","t","i","o","n">>
  ELSE IF l.FrameSize = <<>> THEN <<"f","r","a","m","e"," ","s","i","z","e">>
  ELSE IF l.WheelSize = <<>> THEN <<"w","h","e","e","l"," ","s","i","z","e">>
  ELSE IF l.FrontTravel = <<>>
    THEN <<"f","r","o","n","t"," ","t","r","a","v","e","l">>
  ELSE IF l.RearTravel = <<>>
    THEN <<"r","e","a","r"," ","t","r","a","v","e","l">>
  ELSE IF l.FrameMaterial = <<>>
    THEN <<"f","r","a","m","e"," ","m","a","t","e","r","i","a","l">>
  ELSE <<>>

\* validateListing: the first failing check names the review reason
validateListing(l) ==
  IF l.Price = <<>> \/ l.Price = <<"0">> THEN <<"p","r","i","c","e">>
  ELSE IF l.Year = <<>> THEN <<"y","e","a","r">>
  ELSE IF l.Manufacturer = NoManufacturer \/ l.Manufacturer = <<>>
    THEN <<"m","a","n","u","f","a","c","t","u","r","e","r">>
  ELSE IF l.Model = NoModelFound \/ Contains(l.Model, Electric) \/ l.Model = <<>>
    THEN <<"m","o","d","e","l">>
  ELSE IF l.Currency = <<>> THEN <<"c","u","r","r","e","n","c","y">>
  ELSE IF l.Condition = <<>> THEN <<"c","o","n","d","i","t","i","o","n">>
  ELSE IF l.FrameSize = <<>> THEN <<"f","r","a","m","e"," ","s","i","z","e">>
  ELSE IF l.WheelSize = <<>> THEN <<"w","h","e","e","l"," ","s","i","z","e">>
  ELSE IF l.FrontTravel = <<>>
    THEN <<"f","r","o","n","t"," ","t","r","a","v","e","l">>
  ELSE IF l.RearTravel = <<>>
    THEN <<"r","e","a","r"," ","t","r","a","v","e","l">>
  ELSE IF l.FrameMaterial = <<>>
    THEN <<"f","r","a","m","e"," ","m","a","t","e","r","i","a","l">>
  ELSE <<>>

\* the zero value of listing.ListingDetails as the statement binds it
NoDetails ==
  [Description |-> <<>>, Restrictions |-> <<>>,
   SellerType |-> <<>>, OriginalPostDate |-> 0]

\* RawListing.PostProcess from the struct literal onwards: newL carries the
\* extracted fields; the hash and the review reason are derived from them
PostProcess(newL) ==
  LET h == [newL EXCEPT !.Hash = ComputeHash(newL)]
  IN  [h EXCEPT !.NeedsReview = validateListing(h)]

\* the struct literal of PostProcess for given extracted fields
NewL(title, manufacturer, price, currency, condition, frameSize, wheelSize, material, url) ==
  [Title |-> title, Year |-> <<"2","0","2","0">>,
   Manufacturer |-> manufacturer, Model |-> <<"S","x">>,
   Price |-> price, Currency |-> currency, Condition |-> condition,
   FrameSize |-> frameSize, WheelSize |-> wheelSize,
   FrameMaterial |-> material,
   FrontTravel |-> <<"1","6","0">>, RearTravel |-> <<"1","5","0">>,
   NeedsReview |-> <<>>, URL |-> url, Hash |-> <<>>,
   Details |-> NoDetails]

USD == <<"U","S","D">>
CAD == <<"C","A","D">>

\* the listings a scrape can hand to Export: one bike observed at a price
\* of 100, then at a price of 0 under another url, then with another letter
\* case, currency, manufacturer and wheel size; and a second bike
Scraped ==
  { PostProcess(NewL(<<"T","k"," ","S","x">>, <<"T","k">>, <<"1","0","0">>,
                     USD, <<"G","d">>, <<"M">>, <<"2","9">>, <<"C">>, <<"u","1">>)),
    PostProcess(NewL(<<"T","k"," ","S","x">>, <<"T","k">>, <<"0">>,
                     USD, <<"G","d">>, <<"M">>, <<"2","9">>, <<"C">>, <<"u","2">>)),
    PostProcess(NewL(<<"T","K"," ","S","X">>, <<>>, <<"1","0","0">>,
                     CAD, <<"G","D">>, <<"m">>, <<>>, <<"c">>, <<"u","1">>)),
    PostProcess(NewL(<<"T","k"," ","S","x">>, <<"T","k">>, <<"1","0","0">>,
                     USD, <<"G","d">>, <<"L">>, <<"2","9">>, <<"C">>, <<"u","3">>)) }

\* the batches handed to Export
Batches == UNION { [1..n -> Scraped] : n \in 0..MaxBatch }

(***************************************************************************)
(* State.                                                                  *)
(***************************************************************************)
VARIABLES
  now,             \* the wall clock read by CURRENT_TIMESTAMP and 'now'
  listings,        \* committed rows of table listings, in id order
  price_history,   \* committed rows of table price_history, in id order
  txListings,      \* table listings as the open transaction sees it
  txPriceHistory,  \* table price_history as the open transaction sees it
  pc,              \* position of the Export call in flight, or "idle"
  batch,           \* argument of the Export call in flight
  idx,             \* position of the range loop of exportListings
  callTime,        \* clock value when the Export call in flight was made
  err,             \* what the last Export returned
  nExports,        \* Export calls committed so far
  nUpserts,        \* listings committed so far
  nTicks,          \* clock advances seen so far
  call,            \* the last call of a listing function: name, argument, result
  prev,            \* the call of a listing function before that one
  files,           \* the csv files on disk: a function from path to content
  txs              \* the transactions of Export calls that overlap on one store

\* the state of the store and of the Export call in flight
dbVars == <<now, listings, price_history, txListings, txPriceHistory,
            pc, batch, idx, callTime, err, nExports, nUpserts, nTicks>>

\* the calls that are observed, the files outside the store, and the
\* transactions of overlapping Export calls
callVars == <<call, prev, files, txs>>

vars == <<dbVars, callVars>>

\* the two tables of the database
Tables(l, p) == [listings |-> l, price_history |-> p]

\* an Export call outside its transaction: base are the tables as committed
\* when the transaction began, view the tables as the transaction sees them
NoTx ==
  [pc |-> "idle", batch |-> <<>>, idx |-> 1,
   base |-> Tables(<<>>, <<>>), view |-> Tables(<<>>, <<>>)]

\* no function of package listing has been called
NoCall == [fn |-> "none", arg |-> <<>>, ret |-> <<>>]

\* return values of Export: nil, or the context of the failing phase
Nil == "nil"
ErrBegin == "failed to begin transaction"
ErrPrepare == "failed to prepare statement"
ErrInsert == "failed to insert listing"
\* recordPriceHistory reporting its failure in the words of exportListing
ErrHistoryAsInsert == "failed to insert listing"
ErrHistory == "failed to record price history"
ErrInactive == "failed to mark inactive listings"
\* tx.Commit's error is returned as it is, without a context prefix
ErrCommit == ""

Init ==
  /\ now = 0
  /\ listings = <<>>
  /\ price_history = <<>>
  /\ txListings = <<>>
  /\ txPriceHistory = <<>>
  /\ pc = "idle"
  /\ batch = <<>>
  /\ idx = 1
  /\ callTime = 0
  /\ err = "none"
  /\ nExports = 0
  /\ nUpserts = 0
  /\ nTicks = 0
  /\ call = NoCall
  /\ prev = NoCall
  /\ files = <<>>
  /\ txs = [i \in 1..2 |-> NoTx]

(***************************************************************************)
(* The SQL statements of the exporter, as functions on tables.             *)
(***************************************************************************)
\* the row INSERT INTO listings ... VALUES (..., CURRENT_TIMESTAMP,
\* CURRENT_TIMESTAMP, 1) writes for listing l at clock value t
NewRow(l, t) ==
  [title |-> l.Title, year |-> l.Year, manufacturer |-> l.Manufacturer,
   model |-> l.Model, price |-> l.Price, currency |-> l.Currency,
   condition |-> l.Condition, frame_size |-> l.FrameSize,
   wheel_size |-> l.WheelSize, frame_material |-> l.FrameMaterial,
   front_travel |-> l.FrontTravel, rear_travel |-> l.RearTravel,
   needs_review |-> l.NeedsReview, url |-> l.URL, hash |-> l.Hash,
   description |-> l.Details.Description,
   restrictions |-> l.Details.Restrictions,
   seller_type |-> l.Details.SellerType,
   original_post_date |-> l.Details.OriginalPostDate,
   first_seen |-> t, last_seen |-> t, active |-> TRUE]

\* a conflict update that rewrites the row as a fresh insert would
ConflictUpdateResetsFirstSeen(row, l, t) ==
  [row EXCEPT !.first_seen = t, !.last_seen = t, !.active = TRUE,
              !.url = l.URL, !.price = l.Price]

\* a conflict update that also takes the incoming currency
ConflictUpdateTakesCurrency(row, l, t) ==
  [row EXCEPT !.last_seen = t, !.active = TRUE,
              !.url = l.URL, !.price = l.Price, !.currency = l.Currency]

\* a conflict update that does not take the incoming price
ConflictUpdateKeepsPrice(row, l, t) ==
  [row EXCEPT !.last_seen = t, !.active = TRUE, !.url = l.URL]

\* a conflict update that also takes the incoming detail columns
ConflictUpdateTakesDetails(row, l, t) ==
  [row EXCEPT !.last_seen = t, !.active = TRUE,
              !.url = l.URL, !.price = l.Price,
              !.description = l.Details.Description,
              !.restrictions = l.Details.Restrictions,
              !.seller_type = l.Details.SellerType,
              !.original_post_date = l.Details.OriginalPostDate]

\* a conflict update that leaves the active flag as it is
ConflictUpdateKeepsInactive(row, l, t) ==
  [row EXCEPT !.last_seen = t, !.url = l.URL, !.price = l.Price]

\* ON CONFLICT(hash) DO UPDATE SET last_seen, active, url, price
ConflictUpdate(row, l, t) ==
  [row EXCEPT !.last_seen = t, !.active = TRUE,
              !.url = l.URL, !.price = l.Price]

\* the upsert statement prepared by exportListings, executed for l at t
Upsert(tbl, l, t) ==
  IF \E k \in 1..Len(tbl) : tbl[k].hash = l.Hash
    THEN [k \in 1..Len(tbl) |->
            IF tbl[k].hash = l.Hash THEN ConflictUpdate(tbl[k], l, t)
            ELSE tbl[k]]
    ELSE Append(tbl, NewRow(l, t))

\* the subquery with its time comparison inverted
RecentDuplicateInverted(ph, l, t) ==
  \E k \in 1..Len(ph) :
    /\ ph[k].listing_hash = l.Hash
    /\ ph[k].price = l.Price
    /\ ph[k].recorded_at < t - Day

\* the subquery of recordPriceHistory: a row of this hash and price
\* recorded after datetime('now', '-1 day')
RecentDuplicate(ph, l, t) ==
  \E k \in 1..Len(ph) :
    /\ ph[k].listing_hash = l.Hash
    /\ ph[k].price = l.Price
    /\ ph[k].recorded_at > t - Day

\* recordPriceHistory: INSERT ... SELECT ... WHERE NOT EXISTS (...)
InsertPriceHistory(ph, l, t) ==
  IF RecentDuplicate(ph, l, t) THEN ph
  ELSE Append(ph, [listing_hash |-> l.Hash, price |-> l.Price,
                   currency |-> l.Currency, recorded_at |-> t])

\* a sweep with a threshold of 30 days
SweepInactiveAfterMonth(tbl, t) ==
  [k \in 1..Len(tbl) |->
     IF tbl[k].last_seen < t - 30 * Day THEN [tbl[k] EXCEPT !.active = FALSE]
     ELSE tbl[k]]

\* a sweep that measures age from first_seen
SweepInactiveByFirstSeen(tbl, t) ==
  [k \in 1..Len(tbl) |->
     IF tbl[k].first_seen < t - Week THEN [tbl[k] EXCEPT !.active = FALSE]
     ELSE tbl[k]]

\* a sweep that deletes stale rows
SweepInactiveDeletes(tbl, t) ==
  LET Fresh(r) == ~(r.last_seen < t - Week) IN SelectSeq(tbl, Fresh)

\* markInactiveListings: UPDATE listings SET active = 0
\* WHERE datetime(last_seen) < datetime('now', '-7 days')
SweepInactive(tbl, t) ==
  [k \in 1..Len(tbl) |->
     IF tbl[k].last_seen < t - Week THEN [tbl[k] EXCEPT !.active = FALSE]
     ELSE tbl[k]]

\* a rollback that leaves the transaction's writes in place
RolledBackKeepsWrites(c, t) == t

\* a rollback that undoes the writes to listings only
RolledBackKeepsHistory(c, t) == Tables(c.listings, t.price_history)

\* the committed tables after tx.Rollback: c are the committed tables, t the
\* tables as the transaction left them
RolledBack(c, t) == c

\* the committed tables after a successful tx.Commit
Committed(c, t) == t

(***************************************************************************)
(* Steps of DBExporter.Export.                                             *)
(***************************************************************************)
\* the wall clock advances: between two calls, or inside a call before one of
\* the three statements that read it (CURRENT_TIMESTAMP, datetime('now'))
Tick(d) ==
  /\ nTicks < MaxTicks
  /\ \/ pc = "idle"
     \/ pc \in {"loop", "history"} /\ d \in InCallSteps
  /\ nTicks' = nTicks + 1
  /\ now' = now + d
  /\ UNCHANGED <<listings, price_history, txListings, txPriceHistory,
                 pc, batch, idx, callTime, err, nExports, nUpserts>>
  /\ UNCHANGED callVars

\* Export is called with batch b and DB.Begin succeeds
Begin(b) ==
  /\ pc = "idle"
  /\ nExports < MaxExports
  /\ nUpserts + Len(b) <= MaxUpserts
  /\ batch' = b
  /\ idx' = 1
  /\ callTime' = now
  /\ txListings' = listings
  /\ txPriceHistory' = price_history
  /\ pc' = "prepare"
  /\ err' = "running"
  /\ UNCHANGED <<now, listings, price_history, nExports, nUpserts, nTicks>>
  /\ UNCHANGED callVars

\* Export is called with batch b and DB.Begin fails
BeginFail(b) ==
  /\ pc = "idle"
  /\ nExports < MaxExports
  /\ nUpserts + Len(b) <= MaxUpserts
  /\ err' = ErrBegin
  /\ UNCHANGED <<now, listings, price_history, txListings, txPriceHistory,
                 pc, batch, idx, callTime, nExports, nUpserts, nTicks>>
  /\ UNCHANGED callVars

\* an error return after Begin: the deferred tx.Rollback runs
Abort(e) ==
  /\ LET db == RolledBack(Tables(listings, price_history),
                           Tables(txListings, txPriceHistory))
     IN  /\ listings' = db.listings
         /\ price_history' = db.price_history
  /\ txListings' = <<>>
  /\ txPriceHistory' = <<>>
  /\ pc' = "idle"
  /\ err' = e
  /\ batch' = <<>>
  /\ idx' = 1
  /\ callTime' = 0
  /\ UNCHANGED <<now, nExports, nUpserts, nTicks>>
  /\ UNCHANGED callVars

\* exportListings: tx.Prepare succeeds
Prepare ==
  /\ pc = "prepare"
  /\ pc' = "loop"
  /\ UNCHANGED <<now, listings, price_history, txListings, txPriceHistory,
                 batch, idx, callTime, err, nExports, nUpserts, nTicks>>
  /\ UNCHANGED callVars

PrepareFail ==
  /\ pc = "prepare"
  /\ Abort(ErrPrepare)

\* exportListing: stmt.Exec for the listing at the loop position
ExecUpsert ==
  /\ pc = "loop"
  /\ idx <= Len(batch)
  /\ txListings' = Upsert(txListings, batch[idx], now)
  /\ pc' = "history"
  /\ UNCHANGED <<now, listings, price_history, txPriceHistory,
                 batch, idx, callTime, err, nExports, nUpserts, nTicks>>
  /\ UNCHANGED callVars

ExecUpsertFail ==
  /\ pc = "loop"
  /\ idx <= Len(batch)
  /\ Abort(ErrInsert)

\* recordPriceHistory for the listing just upserted
RecordPriceHistory ==
  /\ pc = "history"
  /\ txPriceHistory' = InsertPriceHistory(txPriceHistory, batch[idx], now)
  /\ idx' = idx + 1
  /\ pc' = "loop"
  /\ UNCHANGED <<now, listings, price_history, txListings,
                 batch, callTime, err, nExports, nUpserts, nTicks>>
  /\ UNCHANGED callVars

RecordPriceHistoryFail ==
  /\ pc = "history"
  /\ Abort(ErrHistory)

\* a sweep that does not wait for the end of the loop
MarkInactiveEarly ==
  /\ pc = "loop"
  /\ txListings' = SweepInactive(txListings, now)
  /\ pc' = "commit"
  /\ UNCHANGED <<now, listings, price_history, txPriceHistory,
                 batch, idx, callTime, err, nExports, nUpserts, nTicks>>
  /\ UNCHANGED callVars

\* markInactiveListings, once the loop is over
MarkInactive ==
  /\ pc = "loop"
  /\ idx > Len(batch)
  /\ txListings' = SweepInactive(txListings, now)
  /\ pc' = "commit"
  /\ UNCHANGED <<now, listings, price_history, txPriceHistory,
                 batch, idx, callTime, err, nExports, nUpserts, nTicks>>
  /\ UNCHANGED callVars

MarkInactiveFail ==
  /\ pc = "loop"
  /\ idx > Len(batch)
  /\ Abort(ErrInactive)

\* tx.Commit succeeds; Export returns nil
Commit ==
  /\ pc = "commit"
  /\ LET db == Committed(Tables(listings, price_history),
                          Tables(txListings, txPriceHistory))
     IN  /\ listings' = db.listings
         /\ price_history' = db.price_history
  /\ txListings' = <<>>
  /\ txPriceHistory' = <<>>
  /\ pc' = "idle"
  /\ err' = Nil
  /\ batch' = <<>>
  /\ idx' = 1
  /\ callTime' = 0
  /\ nExports' = nExports + 1
  /\ nUpserts' = nUpserts + Len(batch)
  /\ UNCHANGED <<now, nTicks>>
  /\ UNCHANGED callVars

\* tx.Commit fails; Export returns its error and nothing is committed
CommitFail ==
  /\ pc = "commit"
  /\ Abort(ErrCommit)

Next ==
  \/ \E d \in TickSteps : Tick(d)
  \/ \E b \in Batches : Begin(b)
  \/ \E b \in Batches : BeginFail(b)
  \/ Prepare
  \/ PrepareFail
  \/ ExecUpsert
  \/ ExecUpsertFail
  \/ RecordPriceHistory
  \/ RecordPriceHistoryFail
  \/ MarkInactive
  \/ MarkInactiveFail
  \/ Commit
  \/ CommitFail

Spec == Init /\ [][Next]_vars

(***************************************************************************)
(* Reading the store.                                                      *)
(***************************************************************************)
\* DBWorker.GetListings: the listing scanned from one row
RowListing(r) ==
  [Title |-> r.title, Year |-> r.year, Manufacturer |-> r.manufacturer,
   Model |-> r.model, Price |-> r.price, Currency |-> r.currency,
   Condition |-> r.condition, FrameSize |-> r.frame_size,
   WheelSize |-> r.wheel_size, FrameMaterial |-> r.frame_material,
   FrontTravel |-> r.front_travel, RearTravel |-> r.rear_travel,
   NeedsReview |-> r.needs_review, URL |-> r.url, Hash |-> r.hash,
   Details |-> [Description |-> r.description,
                Restrictions |-> r.restrictions,
                SellerType |-> r.seller_type,
                OriginalPostDate |-> r.original_post_date]]

\* DBWorker.GetListings: the rows WHERE active = 1, scanned in table order
GetListings(tbl) ==
  LET Active(r) == r.active
      rows == SelectSeq(tbl, Active)
  IN  [k \in 1..Len(rows) |-> RowListing(rows[k])]

\* DBWorker.ListingExistsWithDetails:
\* SELECT EXISTS(SELECT 1 FROM listings WHERE hash = ? AND description = '')
ListingExistsWithDetails(tbl, hash) ==
  \E k \in 1..Len(tbl) : tbl[k].hash = hash /\ tbl[k].description = <<>>

(***************************************************************************)
(* The input modes of the pipeline (main.getListings) in front of Export.  *)
(***************************************************************************)
\* readListingsFromFile: the struct literal built from one csv record; the
\* fields it does not name keep their zero value
FileListing(record) ==
  [Title |-> record[1], Year |-> record[2],
   Manufacturer |-> <<>>, Model |-> <<>>,
   Price |-> record[3], Currency |-> record[4], Condition |-> record[5],
   FrameSize |-> record[6], WheelSize |-> record[7],
   FrameMaterial |-> record[10],
   FrontTravel |-> record[8], RearTravel |-> record[9],
   NeedsReview |-> <<>>, URL |-> <<>>, Hash |-> <<>>,
   Details |-> NoDetails]

\* readListingsFromFile: one listing per record, in file order
readListingsFromFile(records) ==
  [k \in 1..Len(records) |-> FileListing(records[k])]

\* the records a csv file can hold: two bikes that differ in frame size
FileRecords ==
  { <<<<"T","k"," ","S","x">>, <<"2","0","2","0">>, <<"1","0","0">>, USD,
      <<"G","d">>, <<"M">>, <<"2","9">>, <<"1","6","0">>, <<"1","5","0">>,
      <<"C">>>>,
    <<<<"T","k"," ","S","x">>, <<"2","0","2","0">>, <<"1","0","0">>, USD,
      <<"G","d">>, <<"L">>, <<"2","9">>, <<"1","6","0">>, <<"1","5","0">>,
      <<"C">>>> }

\* the contents a csv file can have
Files == UNION { [1..n -> FileRecords] : n \in 0..MaxBatch }

InputModes == {"web", "file", "db"}

\* getListings: the slices the input mode can return, given the store
getListings(mode, tbl) ==
  CASE mode = "file" -> { readListingsFromFile(f) : f \in Files }
    [] mode = "db" -> { GetListings(tbl) }
    [] mode = "web" -> Batches

\* main: the listings of the input mode are handed to Export
ExportFrom(mode) ==
  \E b \in getListings(mode, listings) : Begin(b)

NextInputs ==
  \/ \E d \in TickSteps : Tick(d)
  \/ \E mode \in InputModes : ExportFrom(mode)
  \/ \E b \in Batches : BeginFail(b)
  \/ Prepare
  \/ PrepareFail
  \/ ExecUpsert
  \/ ExecUpsertFail
  \/ RecordPriceHistory
  \/ RecordPriceHistoryFail
  \/ MarkInactive
  \/ MarkInactiveFail
  \/ Commit
  \/ CommitFail

SpecInputs == Init /\ [][NextInputs]_vars

(***************************************************************************)
(* Calls of Listing.ComputeHash and validateListing on listing values.     *)
(***************************************************************************)
\* a Listing value with the given fields and no hash or review reason yet
ListingOf(title, year, manufacturer, model, price, currency, condition, frameSize, wheelSize, material, front, rear, url, details) ==
  [Title |-> title, Year |-> year, Manufacturer |-> manufacturer,
   Model |-> model, Price |-> price, Currency |-> currency,
   Condition |-> condition, FrameSize |-> frameSize,
   WheelSize |-> wheelSize, FrameMaterial |-> material,
   FrontTravel |-> front, RearTravel |-> rear,
   NeedsReview |-> <<>>, URL |-> url, Hash |-> <<>>, Details |-> details]

\* a filled ListingDetails block
SomeDetails ==
  [Description |-> <<"d">>, Restrictions |-> <<"r">>,
   SellerType |-> <<"p","r","i","v","a","t","e">>, OriginalPostDate |-> 1]

\* what a listing carries besides the fields that are hashed: price,
\* currency, manufacturer, wheel size, review reason, url, timestamps,
\* details
Carried ==
  { [Price |-> <<"1","0","0">>, Currency |-> USD, Manufacturer |-> <<"T","k">>,
     WheelSize |-> <<"2","9">>, NeedsReview |-> <<>>, URL |-> <<"u","1">>,
     FirstSeen |-> 0, LastSeen |-> 0, Details |-> NoDetails],
    [Price |-> <<"9","0">>, Currency |-> USD, Manufacturer |-> <<"T","k">>,
     WheelSize |-> <<"2","9">>, NeedsReview |-> <<>>, URL |-> <<"u","2">>,
     FirstSeen |-> 0, LastSeen |-> 0, Details |-> NoDetails],
    [Price |-> <<"1","0","0">>, Currency |-> CAD, Manufacturer |-> <<>>,
     WheelSize |-> <<>>, NeedsReview |-> <<"y","e","a","r">>,
     URL |-> <<"u","1">>, FirstSeen |-> 1, LastSeen |-> 2,
     Details |-> SomeDetails] }

\* the listings ComputeHash is called on: the hashed fields vary in value and
\* in letter case, and the free-text fields may hold any character
HashListings ==
  { [ListingOf(title, year, c.Manufacturer, model, c.Price, c.Currency,
               condition, frameSize, c.WheelSize, <<"c">>, <<"1","6","0">>,
               rear, c.URL, c.Details) EXCEPT !.NeedsReview = c.NeedsReview]
      @@ [FirstSeen |-> c.FirstSeen, LastSeen |-> c.LastSeen] :
      title \in {<<"T","k">>, <<"T","K">>},
      year \in {<<"2","0","2","0">>, <<>>},
      model \in {<<"S","x">>, <<"S","y">>},
      condition \in {<<"g">>, <<"G">>, <<"g","|","m">>},
      frameSize \in {<<"m">>, <<"l">>, <<"m","|","l">>},
      rear \in {<<"1","5","0">>, <<"1","4","0">>},
      c \in Carried }

\* the listings validateListing is called on: every field present or
\* missing, with the sentinels, the zero price and an electric model
ValidatedListings ==
  { ListingOf(<<"T","k">>, year, manufacturer, model, price, currency,
              condition, frameSize, wheelSize, material, front, rear,
              <<"u","1">>, NoDetails) :
      year \in {<<>>, <<"2","0","2","0">>},
      manufacturer \in {<<>>, NoManufacturer, <<"T","k">>},
      model \in {<<>>, NoModelFound, <<"S","x">> \o <<" ">> \o Electric,
                 <<"S","x">>},
      price \in {<<>>, <<"0">>, <<"1","0","0">>},
      currency \in {<<>>, USD},
      condition \in {<<>>, <<"g">>},
      frameSize \in {<<>>, <<"m">>},
      wheelSize \in {<<>>, <<"2","9">>},
      material \in {<<>>, <<"c">>},
      front \in {<<>>, <<"1","6","0">>},
      rear \in {<<>>, <<"1","5","0">>} }

\* l.ComputeHash() is called on some listing; the call before it is kept
\* for comparison
CallComputeHash ==
  /\ prev.fn = "none"
  /\ call.fn \in {"none", "ComputeHash"}
  /\ \E l \in HashListings :
       call' = [fn |-> "ComputeHash", arg |-> l, ret |-> ComputeHash(l)]
  /\ prev' = call
  /\ UNCHANGED <<files, txs, dbVars>>

\* validateListing(l) is called on some listing
CallValidateListing ==
  /\ call.fn = "none"
  /\ \E l \in ValidatedListings :
       call' = [fn |-> "validateListing", arg |-> l,
                ret |-> validateListing(l)]
  /\ UNCHANGED <<prev, files, txs, dbVars>>

(***************************************************************************)
(* Text extraction: extractYear, extractManufacturer, extractModel.        *)
(***************************************************************************)
\* [0-9]
Digits == {"0","1","2","3","4","5","6","7","8","9"}

\* [A-Za-z]
Letters == {Upper[k] : k \in 1..26} \cup {Lower[k] : k \in 1..26}

IsDigit(c) == c \in Digits

IsLetter(c) == c \in Letters

\* a word character of the regexp syntax: [0-9A-Za-z_]
IsWordChar(c) == IsDigit(c) \/ IsLetter(c) \/ c = "_"

\* the character at position k of s exists and is a word character
WordAt(s, k) == k \in 1..Len(s) /\ IsWordChar(s[k])

\* \b holds between position k and position k + 1 of s
WordBoundary(s, k) == WordAt(s, k) # WordAt(s, k + 1)

\* (19[8-9][0-9]|20[0-4][0-9])
YearPattern(w) ==
  /\ Len(w) = 4
  /\ \/ w[1] = "1" /\ w[2] = "9" /\ w[3] \in {"8","9"} /\ IsDigit(w[4])
     \/ /\ w[1] = "2" /\ w[2] = "0"
        /\ w[3] \in {"0","1","2","3","4"} /\ IsDigit(w[4])

\* \b(19[8-9][0-9]|20[0-4][0-9])\b matches the four characters after offset k
YearAt(s, k) ==
  /\ k + 4 <= Len(s)
  /\ WordBoundary(s, k)
  /\ YearPattern(SubSeq(s, k + 1, k + 4))
  /\ WordBoundary(s, k + 4)

\* extractYear: reg.FindString, the leftmost match or ""
extractYear(title) ==
  LET at == {k \in 0..(Len(title) - 4) : YearAt(title, k)}
  IN  IF at = {} THEN <<>>
      ELSE LET k == CHOOSE i \in at : \A j \in at : i <= j
           IN  SubSeq(title, k + 1, k + 4)

\* regexp.MatchString(`(?i)\b` + regexp.QuoteMeta(name) + `\b`, title)
MatchesWord(title, name) ==
  LET folded == ToLower(name)
  IN  \E k \in 0..(Len(title) - Len(name)) :
        /\ WordBoundary(title, k)
        /\ WordBoundary(title, k + Len(name))
        /\ ToLower(SubSeq(title, k + 1, k + Len(name))) = folded

Ibis == <<"I","b","i","s">>
Kona == <<"K","o","n","a">>
Ari == <<"A","r","i">>

\* BikeModel.Purpose
Standard == "standard"
ElectricPurpose == "electric"

\* BikeModel{Name, Purpose}
BikeModel(name, purpose) == [Name |-> name, Purpose |-> purpose]

\* the catalog: a map from manufacturer to its models, in declaration order
bikeModels ==
  [m \in {Ibis, Kona, Ari} |->
     CASE m = Ibis ->
            << BikeModel(<<"R","i","p","m","o">>, Standard),
               BikeModel(<<"R","i","p","m","o"," ","V","2">>, Standard) >>
       [] m = Kona ->
            << BikeModel(<<"P","r","o","c","e","s","s">>, Standard),
               BikeModel(<<"H","e","i"," ","H","e","i">>, Standard),
               BikeModel(<<"P","r","o","c","e","s","s"," ","X">>, Standard),
               BikeModel(<<"R","e","m","o","t","e">>, ElectricPurpose) >>
       [] m = Ari ->
            << BikeModel(<<"D","e","l","a","n","o">>, Standard) >>]

\* the manufacturer names scanned with word boundaries, longest name first
knownManufacturers == <<Ibis, Kona, Ari>>

\* the orders in which `for manufacturer := range bikeModels` can visit the
\* keys of the map: Go leaves the iteration order of a map unspecified
MapOrders ==
  { o \in [1..Cardinality(DOMAIN bikeModels) -> DOMAIN bikeModels] :
      \A i, j \in DOMAIN o : o[i] = o[j] => i = j }

\* the least element of a non-empty set of positions
First(S) == CHOOSE i \in S : \A j \in S : i <= j

\* extractManufacturer without the scan at word boundaries
extractManufacturerUnanchored(title, order) ==
  LET lowerTitle == ToLower(title)
      exact == {k \in 1..Len(order) : Contains(title, order[k])}
      folded == {k \in 1..Len(order) :
                   Contains(lowerTitle, ToLower(order[k]))}
  IN  IF exact # {} THEN order[First(exact)]
      ELSE IF folded # {} THEN order[First(folded)]
      ELSE NoManufacturer

\* extractManufacturer; order is the order in which the two range loops over
\* the map visit its keys (the second loop runs only when the first one, in
\* whatever order, has found nothing)
extractManufacturer(title, order) ==
  LET lowerTitle == ToLower(title)
      anchored == {k \in 1..Len(knownManufacturers) :
                     MatchesWord(title, knownManufacturers[k])}
      exact == {k \in 1..Len(order) : Contains(title, order[k])}
      folded == {k \in 1..Len(order) :
                   Contains(lowerTitle, ToLower(order[k]))}
  IN  IF anchored # {} THEN knownManufacturers[First(anchored)]
      ELSE IF exact # {} THEN order[First(exact)]
      ELSE IF folded # {} THEN order[First(folded)]
      ELSE NoManufacturer

RECURSIVE LongestMatch(_, _, _, _)
\* one scan of extractModel over bikes from position k on: best is the
\* position of bestMatch so far (0 while bestMatchLength is 0); a later
\* model replaces it only when its name is strictly longer
LongestMatch(bikes, matched, k, best) ==
  IF k > Len(bikes) THEN best
  ELSE IF /\ matched[k]
          /\ Len(bikes[k].Name) > (IF best = 0 THEN 0 ELSE Len(bikes[best].Name))
    THEN LongestMatch(bikes, matched, k + 1, k)
    ELSE LongestMatch(bikes, matched, k + 1, best)

\* extractModel; order as in extractManufacturer, which it calls
extractModel(title, order) ==
  LET manufacturer == extractManufacturer(title, order)
      bikes == IF manufacturer \in DOMAIN bikeModels
                 THEN bikeModels[manufacturer] ELSE <<>>
      lowerTitle == ToLower(title)
      exact == [k \in 1..Len(bikes) |-> Contains(title, bikes[k].Name)]
      anchored == [k \in 1..Len(bikes) |-> MatchesWord(title, bikes[k].Name)]
      folded == [k \in 1..Len(bikes) |->
                   Contains(lowerTitle, ToLower(bikes[k].Name))]
      b1 == LongestMatch(bikes, exact, 1, 0)
      b2 == IF b1 = 0 THEN LongestMatch(bikes, anchored, 1, 0) ELSE b1
      b3 == IF b2 = 0 THEN LongestMatch(bikes, folded, 1, 0) ELSE b2
  IN  IF manufacturer = NoManufacturer THEN NoModelFound
      ELSE IF b3 = 0 THEN NoModelFound
      ELSE IF bikes[b3].Purpose = ElectricPurpose
        THEN bikes[b3].Name \o <<" ">> \o Electric
        ELSE bikes[b3].Name

\* the words of titles that name manufacturers: names in several spellings,
\* names inside longer words
ManufacturerWords ==
  { <<"M","a","r","i","n">>, <<"A","r","i","e","l">>, Ari,
    <<"i","b","i","s">>, Kona, <<"K","o","n","a","s">> }

\* the words of titles that name models: a manufacturer in two spellings,
\* model names and the parts of model names
ModelWords ==
  { <<"i","b","i","s">>, Kona, <<"R","i","p","m","o">>, <<"V","2">>,
    <<"P","r","o","c","e","s","s">>, <<"X">>, <<"x">>,
    <<"H","e","i"," ","H","e","i">>, <<"R","e","m","o","t","e">> }

\* the words of titles that carry numbers: years inside and outside the
\* window, numbers that are no years, digits glued to letters or digits
YearWords ==
  { <<"1","9","7","9">>, <<"1","9","8","0">>, <<"2","0","2","3">>,
    <<"2","0","4","0">>, <<"2","0","5","0">>, <<"1","2","3","4">>,
    <<"8","5","0","0">>, <<"2","0","2","3","4">>,
    <<"K","2","0","2","3">>, <<"(","2","0","2","3",")">>, Kona }

\* the titles of at most MaxWords words over a vocabulary
TitlesOver(words) ==
  { Join(ws, <<" ">>) : ws \in UNION { [1..n -> words] : n \in 0..MaxWords } }

ManufacturerTitles == TitlesOver(ManufacturerWords)

ModelTitles == TitlesOver(ModelWords)

YearTitles == TitlesOver(YearWords)

\* extractYear(title) is called on some title
CallExtractYear ==
  /\ call.fn = "none"
  /\ \E title \in YearTitles :
       call' = [fn |-> "extractYear", arg |-> title,
                ret |-> extractYear(title)]
  /\ UNCHANGED <<prev, files, txs, dbVars>>

\* extractManufacturer(title) is called on some title; its range loops
\* visit the map in some order
CallExtractManufacturer ==
  /\ call.fn = "none"
  /\ \E title \in ManufacturerTitles : \E order \in MapOrders :
       call' = [fn |-> "extractManufacturer", arg |-> title,
                ret |-> extractManufacturer(title, order)]
  /\ UNCHANGED <<prev, files, txs, dbVars>>

\* extractModel(title) is called on some title
CallExtractModel ==
  /\ call.fn = "none"
  /\ \E title \in ModelTitles : \E order \in MapOrders :
       call' = [fn |-> "extractModel", arg |-> title,
                ret |-> extractModel(title, order)]
  /\ UNCHANGED <<prev, files, txs, dbVars>>


(***************************************************************************)
(* RawListing.PostProcess from a scraped record, and pairs of calls.       *)
(***************************************************************************)
\* strings.ToUpper on one character
ToUpperChar(c) ==
  IF \E k \in 1..26 : Lower[k] = c
    THEN Upper[CHOOSE k \in 1..26 : Lower[k] = c] ELSE c

ToUpper(s) == [k \in 1..Len(s) |-> ToUpperChar(s[k])]

\* strings.ReplaceAll(s, old, "") for a one-character old
RemoveAll(s, old) ==
  LET Keep(c) == c # old
  IN  SelectSeq(s, Keep)

\* extractCurrency: the leftmost match of (CAD|USD|cad|usd), upper-cased
extractCurrency(price) ==
  LET codes == {CAD, USD, ToLower(CAD), ToLower(USD)}
      at == {k \in 0..(Len(price) - 3) : SubSeq(price, k + 1, k + 3) \in codes}
  IN  IF at = {} THEN <<>>
      ELSE ToUpper(SubSeq(price, First(at) + 1, First(at) + 3))

\* [0-9,]
IsPriceChar(c) == IsDigit(c) \/ c = ","

\* extractPrice: the leftmost match of [$]?([0-9,]+), its group taken
\* greedily, with the commas removed
extractPrice(price) ==
  LET at == {k \in 1..Len(price) : IsPriceChar(price[k])}
  IN  IF at = {} THEN <<>>
      ELSE LET from == First(at)
               to == CHOOSE j \in from..Len(price) :
                       /\ \A i \in from..j : IsPriceChar(price[i])
                       /\ j = Len(price) \/ ~IsPriceChar(price[j + 1])
           IN  RemoveAll(SubSeq(price, from, to), ",")

\* the decimal digits in order of value
DigitChars == <<"0","1","2","3","4","5","6","7","8","9">>

DigitValue(c) == (CHOOSE k \in 1..10 : DigitChars[k] = c) - 1

RECURSIVE ParseDigits(_)
\* the value of a string of decimal digits
ParseDigits(p) ==
  IF p = <<>> THEN 0
  ELSE 10 * ParseDigits(SubSeq(p, 1, Len(p) - 1)) + DigitValue(p[Len(p)])

RECURSIVE FormatDigits(_)
\* fmt.Sprintf("%.0f", n) for a whole number n >= 0
FormatDigits(n) ==
  IF n < 10 THEN <<DigitChars[n + 1]>>
  ELSE FormatDigits(n \div 10) \o <<DigitChars[(n % 10) + 1]>>

\* an exchange rate num / den
Rate(num, den) == [num |-> num, den |-> den]

\* math.Round(p * rate) for p >= 0: halves are rounded away from zero
RoundProduct(p, rate) == (2 * p * rate.num + rate.den) \div (2 * rate.den)

\* convertPrice: strconv.ParseFloat fails on the empty string; a price in
\* CAD is multiplied by the rate and rounded, any other price is returned
\* as extracted.  The prices and rates of the model are exactly
\* representable in float32 and float64, as are their products.
convertPrice(price, currency, exchangeRate) ==
  LET p == extractPrice(price)
  IN  IF p = <<>> THEN <<>>
      ELSE IF currency = CAD
        THEN FormatDigits(RoundProduct(ParseDigits(p), exchangeRate))
        ELSE p

\* RawListing{Title, Price, Condition, FrameSize, WheelSize, FrameMaterial,
\* FrontTravel, RearTravel, URL}
RawListing(title, price, condition, frameSize, wheelSize, material, front, rear, url) ==
  [Title |-> title, Price |-> price, Condition |-> condition,
   FrameSize |-> frameSize, WheelSize |-> wheelSize,
   FrameMaterial |-> material, FrontTravel |-> front, RearTravel |-> rear,
   URL |-> url]

\* RawListing.PostProcess: the struct literal, then the hash and the review
\* reason.  byName is the order in which the map is visited by the call of
\* extractManufacturer, byModel the order in which it is visited by the call
\* of extractManufacturer inside extractModel.
RawListingPostProcess(l, exchangeRate, byName, byModel) ==
  PostProcess(
    ListingOf(RemoveAll(l.Title, "\n"), extractYear(l.Title),
              extractManufacturer(l.Title, byName),
              extractModel(l.Title, byModel),
              convertPrice(l.Price, extractCurrency(l.Price), exchangeRate),
              extractCurrency(l.Price), l.Condition, l.FrameSize,
              l.WheelSize, l.FrameMaterial, l.FrontTravel, l.RearTravel,
              l.URL, NoDetails))

\* titles of scraped records: one manufacturer and model, a line break, a
\* lower-case title, manufacturer names inside longer words, no name at all
RawTitles ==
  { <<"2","0","2","3"," ","K","o","n","a"," ","P","r","o","c","e","s","s"," ","X">>,
    <<"I","b","i","s","\n"," ","R","i","p","m","o"," ","V","2">>,
    <<"k","o","n","a"," ","r","e","m","o","t","e"," ","2","0","2","2">>,
    <<"K","o","n","a","s"," ","A","r","i","e","l"," ","D","e","l","a","n","o">>,
    <<"A","r","i","e","l"," ","K","o","n","a">>,
    <<"B","i","k","e">> }

\* price texts of scraped records
RawPrices ==
  { <<"$","1",",","2","5","0"," ","U","S","D">>,
    <<"$","1",",","2","5","0"," ","C","A","D">>,
    <<"$","3"," ","c","a","d">>,
    <<"U","S","D">>,
    <<>> }

\* the scraped records PostProcess is called on
RawListings ==
  { RawListing(title, price, <<"g">>, frameSize, <<"2","9">>, <<"c">>,
               <<"1","6","0">>, <<"1","5","0">>, <<"u","1">>) :
      title \in RawTitles, price \in RawPrices, frameSize \in {<<"m">>, <<>>} }

\* the exchange rates PostProcess is called with
ExchangeRates == {Rate(3, 4), Rate(1, 2)}

\* r.PostProcess(x) is called on some record with some rate, and then once
\* more on the same record with the same rate; the first call is kept for
\* comparison
CallPostProcess ==
  /\ prev.fn = "none"
  /\ call.fn \in {"none", "PostProcess"}
  /\ \E r \in RawListings : \E x \in ExchangeRates :
       /\ call.fn = "PostProcess" => call.arg = <<r, x>>
       /\ \E byName \in MapOrders : \E byModel \in MapOrders :
            call' = [fn |-> "PostProcess", arg |-> <<r, x>>,
                     ret |-> RawListingPostProcess(r, x, byName, byModel)]
  /\ prev' = call
  /\ UNCHANGED <<files, txs, dbVars>>

\* two successive calls of ComputeHash, or of PostProcess
NextPairs ==
  \/ CallComputeHash
  \/ CallPostProcess

SpecPairs == Init /\ [][NextPairs]_vars

\* price texts the price functions are called on: the codes in several
\* letter cases, with and without digits, a comma before the digits
PriceTexts ==
  RawPrices \cup
  { <<"$","1",",","8","0","4"," ","C","A","D">>,
    <<"1","0","0"," ","C","a","d">>,
    <<"1","0","0">>,
    <<"5"," ","u","s","d">>,
    <<"o","b","o",","," ","1","0","0"," ","C","A","D">>,
    <<"1","0","0","-","2","0","0"," ","C","A","D">> }

\* extractCurrency(price) is called on some price text
CallExtractCurrency ==
  /\ call.fn = "none"
  /\ \E price \in PriceTexts :
       call' = [fn |-> "extractCurrency", arg |-> price,
                ret |-> extractCurrency(price)]
  /\ UNCHANGED <<prev, files, txs, dbVars>>

\* convertPrice(price, currency, exchangeRate) is called
CallConvertPrice ==
  /\ call.fn = "none"
  /\ \E price \in PriceTexts : \E currency \in {CAD, USD, <<>>} :
       \E x \in ExchangeRates \cup {Rate(1, 1)} :
         call' = [fn |-> "convertPrice", arg |-> <<price, currency, x>>,
                  ret |-> convertPrice(price, currency, x)]
  /\ UNCHANGED <<prev, files, txs, dbVars>>

\* single calls of the text extraction functions, of the price functions
\* and of validateListing
NextCalls ==
  \/ CallValidateListing
  \/ CallExtractYear
  \/ CallExtractManufacturer
  \/ CallExtractModel
  \/ CallExtractCurrency
  \/ CallConvertPrice

SpecCalls == Init /\ [][NextCalls]_vars

(***************************************************************************)
(* CSVExporter: the batch written to csv files.                            *)
(***************************************************************************)
\* the paths main gives to NewCSVExporter
GoodListingsPath == "runs/file.csv"
SuspectListingsPath == "runs/suspect_file.csv"

\* csv.Writer.Write: the fields joined by commas and ended by a line break
\* (no field of the model needs quoting)
CsvLine(fields) == Join(fields, <<",">>) \o <<"\n">>

RECURSIVE CsvLines(_)
\* the lines written for a sequence of rows, one after the other
CsvLines(rows) ==
  IF rows = <<>> THEN <<>>
  ELSE CsvLine(Head(rows)) \o CsvLines(Tail(rows))

csvHeaders ==
  << <<"T","i","t","l","e">>, <<"Y","e","a","r">>,
     <<"M","a","n","u","f","a","c","t","u","r","e","r">>,
     <<"M","o","d","e","l">>, <<"P","r","i","c","e">>,
     <<"C","u","r","r","e","n","c","y">>,
     <<"C","o","n","d","i","t","i","o","n">>,
     <<"F","r","a","m","e"," ","S","i","z","e">>,
     <<"W","h","e","e","l"," ","S","i","z","e">>,
     <<"F","r","a","m","e"," ","M","a","t","e","r","i","a","l">>,
     <<"F","r","o","n","t"," ","T","r","a","v","e","l">>,
     <<"R","e","a","r"," ","T","r","a","v","e","l">>,
     <<"N","e","e","d","s"," ","R","e","v","i","e","w">> >>

\* the row writeToFile builds for listing l
CsvRow(l) ==
  <<l.Title, l.Year, l.Manufacturer, l.Model, l.Price, l.Currency,
    l.Condition, l.FrameSize, l.WheelSize, l.FrameMaterial, l.FrontTravel,
    l.RearTravel, l.NeedsReview>>

\* os.Create(path): the file exists and is empty
CreateFile(fs, path) ==
  [q \in DOMAIN fs \cup {path} |-> IF q = path THEN <<>> ELSE fs[q]]

\* bytes written through a file handle whose offset is 0: they replace the
\* bytes at the start of the file and leave what lies beyond them
WriteAtStart(fs, path, bytes) ==
  [fs EXCEPT ![path] = bytes \o SubSeq(@, Len(bytes) + 1, Len(@))]

\* what goodWriter and suspectWriter have buffered when the loop ends
GoodLines(b) ==
  LET Clean(l) == l.NeedsReview = <<>>
      clean == SelectSeq(b, Clean)
  IN  CsvLine(csvHeaders) \o CsvLines([k \in 1..Len(clean) |-> CsvRow(clean[k])])

SuspectLines(b) ==
  LET Suspect(l) == l.NeedsReview # <<>>
      suspect == SelectSeq(b, Suspect)
  IN  CsvLine(csvHeaders)
        \o CsvLines([k \in 1..Len(suspect) |-> CsvRow(suspect[k])])

\* CSVExporter.writeToFile without a failure: both files are created at
\* e.goodListingsPath; the writers buffer their lines (the files of the model
\* are shorter than the buffer) and the deferred calls flush suspectWriter
\* first, then goodWriter, each through its own handle from offset 0
writeToFile(fs, goodPath, suspectPath, b) ==
  LET created == CreateFile(CreateFile(fs, goodPath), goodPath)
  IN  WriteAtStart(WriteAtStart(created, goodPath, SuspectLines(b)),
                   goodPath, GoodLines(b))

\* the listings handed to the csv exporter: clean ones and ones that need
\* review for their price, their year or their frame size
CsvListings ==
  { PostProcess(ListingOf(<<"T","k">>, year, <<"T","k">>, <<"S","x">>, price,
                          USD, <<"g">>, frameSize, <<"2","9">>, <<"c">>,
                          <<"1","6","0">>, <<"1","5","0">>, <<"u","1">>,
                          NoDetails)) :
      year \in {<<"2","0","2","0">>, <<>>},
      price \in {<<"1","0","0">>, <<"0">>},
      frameSize \in {<<"m">>, <<"l">>, <<>>} }

CsvBatches == UNION { [1..n -> CsvListings] : n \in 0..MaxBatch }

\* CSVExporter.Export(b) returns nil
CSVExport ==
  /\ call.fn = "none"
  /\ \E b \in CsvBatches :
       /\ files' = writeToFile(files, GoodListingsPath, SuspectListingsPath, b)
       /\ call' = [fn |-> "CSVExporter.Export", arg |-> b, ret |-> Nil]
  /\ UNCHANGED <<prev, txs, dbVars>>

\* CSVExporter.Export fails at the first os.Create: nothing is written
CSVExportFail ==
  /\ call.fn = "none"
  /\ \E b \in CsvBatches :
       call' = [fn |-> "CSVExporter.Export", arg |-> b,
                ret |-> "failed to write to CSV"]
  /\ UNCHANGED <<prev, files, txs, dbVars>>

NextCSV ==
  \/ CSVExport
  \/ CSVExportFail

SpecCSV == Init /\ [][NextCSV]_vars

(***************************************************************************)
(* Export of listings that carry a details block.                          *)
(***************************************************************************)
\* l with the details block a detail scrape fills in, seen under url
WithDetails(l, url) == [l EXCEPT !.Details = SomeDetails, !.URL = url]

\* one bike without details and, under another url, with details; a second
\* bike with details
DetailedListings ==
  LET bike == PostProcess(NewL(<<"T","k"," ","S","x">>, <<"T","k">>,
                               <<"1","0","0">>, USD, <<"G","d">>, <<"M">>,
                               <<"2","9">>, <<"C">>, <<"u","1">>))
      other == PostProcess(NewL(<<"T","k"," ","S","x">>, <<"T","k">>,
                                <<"1","0","0">>, USD, <<"G","d">>, <<"L">>,
                                <<"2","9">>, <<"C">>, <<"u","3">>))
  IN  {bike, WithDetails(bike, <<"u","9">>), WithDetails(other, <<"u","3">>)}

DetailedBatches == UNION { [1..n -> DetailedListings] : n \in 0..MaxBatch }

\* Export called with listings that may carry details
NextDetails ==
  \/ \E d \in TickSteps : Tick(d)
  \/ \E b \in DetailedBatches : Begin(b)
  \/ \E b \in DetailedBatches : BeginFail(b)
  \/ Prepare
  \/ PrepareFail
  \/ ExecUpsert
  \/ ExecUpsertFail
  \/ RecordPriceHistory
  \/ RecordPriceHistoryFail
  \/ MarkInactive
  \/ MarkInactiveFail
  \/ Commit
  \/ CommitFail

SpecDetails == Init /\ [][NextDetails]_vars

(***************************************************************************)
(* main: scrape, optional detail pass, Export.                             *)
(***************************************************************************)
\* what can happen to one listing in the loop of GetDetailedListings: the
\* existence check fails, page.Goto fails, the status is not 200, the
\* detail scrape fails, or all of them succeed
Outcomes == {"checkFailed", "gotoFailed", "status", "scrapeFailed", "ok"}

RECURSIVE GetDetailedListingsKeepsFailed(_, _, _)
\* a loop that appends the listing although its detail scrape failed
GetDetailedListingsKeepsFailed(ls, tbl, outcome) ==
  IF ls = <<>> THEN <<>>
  ELSE LET l == Head(ls)
           rest == GetDetailedListingsKeepsFailed(Tail(ls), tbl, Tail(outcome))
       IN  IF Head(outcome) = "checkFailed" THEN rest
           ELSE IF ListingExistsWithDetails(tbl, l.Hash) THEN rest
           ELSE IF Head(outcome) \in {"gotoFailed", "status"} THEN rest
           ELSE IF Head(outcome) = "scrapeFailed" THEN <<l>> \o rest
           ELSE <<[l EXCEPT !.Details = SomeDetails]>> \o rest

RECURSIVE GetDetailedListings(_, _, _)
\* Scraper.GetDetailedListings once the page is open: tbl is the table the
\* existence check reads, outcome[i] what happens to the i-th listing
GetDetailedListings(ls, tbl, outcome) ==
  IF ls = <<>> THEN <<>>
  ELSE LET l == Head(ls)
           rest == GetDetailedListings(Tail(ls), tbl, Tail(outcome))
       IN  IF Head(outcome) = "checkFailed" THEN rest
           ELSE IF ListingExistsWithDetails(tbl, l.Hash) THEN rest
           ELSE IF Head(outcome) \in {"gotoFailed", "status", "scrapeFailed"}
             THEN rest
           ELSE <<[l EXCEPT !.Details = SomeDetails]>> \o rest

\* the listings of one scrape: a bike at a price of 100, the same bike at a
\* price of 0 under another url, and a second bike
RunListings ==
  << PostProcess(NewL(<<"T","k"," ","S","x">>, <<"T","k">>, <<"1","0","0">>,
                      USD, <<"G","d">>, <<"M">>, <<"2","9">>, <<"C">>, <<"u","1">>)),
     PostProcess(NewL(<<"T","k"," ","S","x">>, <<"T","k">>, <<"0">>,
                      USD, <<"G","d">>, <<"M">>, <<"2","9">>, <<"C">>, <<"u","2">>)),
     PostProcess(NewL(<<"T","k"," ","S","x">>, <<"T","k">>, <<"1","0","0">>,
                      USD, <<"G","d">>, <<"L">>, <<"2","9">>, <<"C">>, <<"u","3">>)) >>

\* what successive scrapes return: the first bike alone, or that bike at its
\* other price followed by the second bike
RunBatches ==
  { <<RunListings[1]>>,
    <<RunListings[2], RunListings[3]>> }

\* main without the detail pass: the scraped listings go to Export, whose
\* DB.Begin succeeds
RunWithoutDetails ==
  /\ pc = "idle"
  /\ nExports < MaxExports
  /\ \E scraped \in RunBatches :
       /\ nUpserts + Len(scraped) <= MaxUpserts
       /\ call' = [fn |-> "getListings", arg |-> <<scraped>>, ret |-> scraped]
       /\ batch' = scraped
  /\ idx' = 1
  /\ callTime' = now
  /\ txListings' = listings
  /\ txPriceHistory' = price_history
  /\ pc' = "prepare"
  /\ err' = "running"
  /\ UNCHANGED <<now, listings, price_history, nExports, nUpserts, nTicks>>
  /\ UNCHANGED <<prev, files, txs>>

\* main with the detail pass: the listings GetDetailedListings returns go
\* to Export, whose DB.Begin succeeds
RunWithDetails ==
  /\ pc = "idle"
  /\ nExports < MaxExports
  /\ \E scraped \in RunBatches :
       /\ nUpserts + Len(scraped) <= MaxUpserts
       /\ \E outcome \in [1..Len(scraped) -> Outcomes] :
            LET detailed == GetDetailedListings(scraped, listings, outcome)
            IN  /\ call' = [fn |-> "GetDetailedListings",
                            arg |-> <<scraped, outcome>>, ret |-> detailed]
                /\ batch' = detailed
  /\ idx' = 1
  /\ callTime' = now
  /\ txListings' = listings
  /\ txPriceHistory' = price_history
  /\ pc' = "prepare"
  /\ err' = "running"
  /\ UNCHANGED <<now, listings, price_history, nExports, nUpserts, nTicks>>
  /\ UNCHANGED <<prev, files, txs>>

\* the wall clock advances between two runs of main
TickBetweenRuns(d) ==
  /\ pc = "idle"
  /\ nTicks < MaxTicks
  /\ nTicks' = nTicks + 1
  /\ now' = now + d
  /\ UNCHANGED <<listings, price_history, txListings, txPriceHistory,
                 pc, batch, idx, callTime, err, nExports, nUpserts>>
  /\ UNCHANGED callVars

NextRuns ==
  \/ \E d \in TickSteps : TickBetweenRuns(d)
  \/ RunWithoutDetails
  \/ RunWithDetails
  \/ Prepare
  \/ PrepareFail
  \/ ExecUpsert
  \/ ExecUpsertFail
  \/ RecordPriceHistory
  \/ RecordPriceHistoryFail
  \/ MarkInactive
  \/ MarkInactiveFail
  \/ Commit
  \/ CommitFail

SpecRuns == Init /\ [][NextRuns]_vars

(***************************************************************************)
(* Properties.                                                             *)
(***************************************************************************)

\* C1: Export is all-or-nothing.  Every step of a call in flight that does
\* not return nil (a statement that succeeds, or a failing prepare, upsert,
\* price-history append, sweep or commit, after which Export returns the
\* error) leaves the committed rows of listings and of price_history exactly
\* as they were, whatever the transaction had already written.
C1_AllOrNothing ==
  [][ (pc # "idle" /\ err' # Nil)
        => /\ listings' = listings
           /\ price_history' = price_history
           /\ (pc' = "idle" =>
                 err' \in {ErrPrepare, ErrInsert, ErrHistory,
                           ErrInactive, ErrCommit}) ]_vars

\* C1 witness: the first call failed in a price-history append, which follows
\* the upsert of its listing; nothing is stored
C1_Witness ==
  /\ pc = "idle" /\ err = ErrHistory
  /\ nExports = 0
  /\ listings = <<>> /\ price_history = <<>>

\* C2 (as claimed): recordPriceHistory appends the row (hash, price,
\* currency, now) if and only if no row of this hash with the same price and
\* the same currency was recorded within the trailing 24 hours.
C2_AppendIffNoRecentSamePriceAndCurrency ==
  [][ (pc = "history" /\ pc' = "loop")
        => LET l == batch[idx]
               recent == \E k \in 1..Len(txPriceHistory) :
                           /\ txPriceHistory[k].listing_hash = l.Hash
                           /\ txPriceHistory[k].price = l.Price
                           /\ txPriceHistory[k].currency = l.Currency
                           /\ txPriceHistory[k].recorded_at > now - Day
               row == [listing_hash |-> l.Hash, price |-> l.Price,
                       currency |-> l.Currency, recorded_at |-> now]
           IN  IF recent THEN txPriceHistory' = txPriceHistory
               ELSE txPriceHistory' = Append(txPriceHistory, row) ]_vars

\* C3 (as claimed): when a successful Export re-observes a stored listing
\* (once in its batch) with a price other than the stored one, the row takes
\* the incoming price and url and a price_history row for the new price is
\* appended by that Export.
C3_PriceChangeCaptured ==
  [][ (pc = "commit" /\ err' = Nil)
        => \A i \in 1..Len(batch) :
             LET l == batch[i] IN
             ( /\ \A j \in 1..Len(batch) : batch[j].Hash = l.Hash => j = i
               /\ \E k \in 1..Len(listings) :
                    listings[k].hash = l.Hash /\ listings[k].price # l.Price )
             => /\ \E k \in 1..Len(listings') :
                     /\ listings'[k].hash = l.Hash
                     /\ listings'[k].price = l.Price
                     /\ listings'[k].url = l.URL
                /\ \E k \in (Len(price_history) + 1)..Len(price_history') :
                     /\ price_history'[k].listing_hash = l.Hash
                     /\ price_history'[k].price = l.Price ]_vars

\* C4: upsert idempotence.  An Export that creates the row of a listing
\* leaves one listings row and one price_history row for its hash; an Export
\* of the same listing again, less than 24 hours after that recording,
\* leaves both in place and changes nothing of them but last_seen (active
\* stays true).
C4_UpsertIdempotent ==
  [][ (pc = "commit" /\ err' = Nil)
        => \A i \in 1..Len(batch) :
             LET l == batch[i]
                 once == \A j \in 1..Len(batch) : batch[j].Hash = l.Hash => j = i
                 rows == {k \in 1..Len(listings) : listings[k].hash = l.Hash}
                 rows2 == {k \in 1..Len(listings') : listings'[k].hash = l.Hash}
                 hist == {k \in 1..Len(price_history) :
                            price_history[k].listing_hash = l.Hash}
                 hist2 == {k \in 1..Len(price_history') :
                             price_history'[k].listing_hash = l.Hash}
             IN
             /\ (once /\ rows = {})
                  => /\ Cardinality(rows2) = 1
                     /\ Cardinality(hist2) = 1
                     /\ \A k \in rows2 :
                          listings'[k] = NewRow(l, listings'[k].first_seen)
                     /\ \A k \in hist2 :
                          /\ price_history'[k].price = l.Price
                          /\ price_history'[k].currency = l.Currency
             /\ (/\ once
                 /\ Cardinality(rows) = 1
                 /\ Cardinality(hist) = 1
                 /\ \A k \in rows : listings[k] = NewRow(l, listings[k].first_seen)
                 /\ \A k \in hist :
                      /\ price_history[k].price = l.Price
                      /\ price_history[k].currency = l.Currency
                      /\ now - price_history[k].recorded_at < Day)
                  => /\ rows2 = rows
                     /\ hist2 = hist
                     /\ \A k \in hist : price_history'[k] = price_history[k]
                     /\ \A k \in rows :
                          /\ listings'[k].last_seen \in callTime..now
                          /\ listings'[k] =
                               [listings[k] EXCEPT
                                  !.last_seen = listings'[k].last_seen] ]_vars

\* C4 witness: a listing stored at one time and seen again later within the
\* day, with one row, one recorded price, and nothing else changed
C4_Witness ==
  /\ pc = "idle" /\ err = Nil
  /\ \E k \in 1..Len(listings) :
       /\ listings[k].first_seen < listings[k].last_seen
       /\ listings[k].last_seen - listings[k].first_seen < Day
       /\ listings[k] = [NewRow(RowListing(listings[k]), listings[k].first_seen)
                           EXCEPT !.last_seen = listings[k].last_seen]
       /\ Cardinality({j \in 1..Len(price_history) :
                         price_history[j].listing_hash = listings[k].hash}) = 1
       /\ \A j \in 1..Len(price_history) :
            price_history[j].listing_hash = listings[k].hash
              => /\ price_history[j].price = listings[k].price
                 /\ price_history[j].currency = listings[k].currency
                 /\ price_history[j].recorded_at = listings[k].first_seen

\* C5: no two price_history rows, committed or written by the transaction in
\* flight, have the same listing hash, price and currency and recorded_at
\* values less than 24 hours apart.
C5_NoDuplicateWithinWindow ==
  \A ph \in {price_history, txPriceHistory} :
    \A i, j \in 1..Len(ph) :
      ( /\ i < j
        /\ ph[i].listing_hash = ph[j].listing_hash
        /\ ph[i].price = ph[j].price
        /\ ph[i].currency = ph[j].currency )
      => \/ ph[j].recorded_at - ph[i].recorded_at >= Day
         \/ ph[i].recorded_at - ph[j].recorded_at >= Day

\* C5 witness: the same price of one listing recorded twice, a day or more
\* apart
C5_Witness ==
  \E i, j \in 1..Len(price_history) :
    /\ i < j
    /\ price_history[i].listing_hash = price_history[j].listing_hash
    /\ price_history[i].price = price_history[j].price
    /\ price_history[i].currency = price_history[j].currency

\* C6 (as claimed): after a successful Export every row whose last_seen was
\* older than 7 days when the call was made is inactive, whether or not its
\* hash was in the batch.
C6_StaleRowsInactive ==
  [][ (pc = "commit" /\ err' = Nil)
        => \A k \in 1..Len(listings) :
             listings[k].last_seen < callTime - Week
               => \E m \in 1..Len(listings') :
                    /\ listings'[m].hash = listings[k].hash
                    /\ ~listings'[m].active ]_vars

\* C6 (amended): after a successful Export every row whose last_seen was
\* older than 7 days when the call was made and whose hash is not in the
\* batch is inactive, also when the batch is empty.
C6_StaleRowsOutsideBatchInactive ==
  [][ (pc = "commit" /\ err' = Nil)
        => \A k \in 1..Len(listings) :
             ( /\ listings[k].last_seen < callTime - Week
               /\ \A i \in 1..Len(batch) : batch[i].Hash # listings[k].hash )
               => /\ k <= Len(listings')
                  /\ listings'[k].hash = listings[k].hash
                  /\ ~listings'[k].active ]_vars

\* C6 witness: after two calls, one stored listing has been swept while the
\* other, seen by the second call, is active
C6_Witness ==
  /\ pc = "idle" /\ err = Nil /\ nExports = 2
  /\ \E k, m \in 1..Len(listings) :
       /\ ~listings[k].active
       /\ listings[m].active
       /\ listings[k].last_seen < listings[m].last_seen - Week

\* C7: a successful Export changes nothing of an existing row but
\* last_seen, active, url and price, whatever the batch carries for its hash.
C7_UpsertFrame ==
  [][ (pc = "commit" /\ err' = Nil)
        => \A k \in 1..Len(listings) :
             /\ k <= Len(listings')
             /\ [listings'[k] EXCEPT !.last_seen = 0, !.active = TRUE,
                                     !.url = <<>>, !.price = <<>>]
                  = [listings[k] EXCEPT !.last_seen = 0, !.active = TRUE,
                                        !.url = <<>>, !.price = <<>>] ]_vars

\* C7 witness: a call is about to commit the re-observation of a stored
\* listing whose incoming title, manufacturer, currency, condition, frame
\* size, wheel size, material and review reason all differ from the row's
C7_Witness ==
  /\ pc = "commit"
  /\ \E i \in 1..Len(batch) : \E k \in 1..Len(listings) :
       /\ listings[k].hash = batch[i].Hash
       /\ listings[k].title # batch[i].Title
       /\ listings[k].manufacturer # batch[i].Manufacturer
       /\ listings[k].currency # batch[i].Currency
       /\ listings[k].condition # batch[i].Condition
       /\ listings[k].frame_size # batch[i].FrameSize
       /\ listings[k].wheel_size # batch[i].WheelSize
       /\ listings[k].frame_material # batch[i].FrameMaterial
       /\ listings[k].needs_review # batch[i].NeedsReview
       /\ txListings[k].last_seen > listings[k].last_seen

\* C8: after a successful Export made at one clock value t, every listing of
\* the batch has exactly one row, active and with last_seen = t; a row the
\* call created has first_seen = last_seen = t.
C8_BatchRowsActiveAndSeen ==
  [][ (pc = "commit" /\ err' = Nil /\ callTime = now)
        => \A i \in 1..Len(batch) :
             LET rows2 == {k \in 1..Len(listings') :
                             listings'[k].hash = batch[i].Hash}
             IN  /\ Cardinality(rows2) = 1
                 /\ \A k \in rows2 :
                      /\ listings'[k].active
                      /\ listings'[k].last_seen = now
                      /\ (\A m \in 1..Len(listings) :
                            listings[m].hash # batch[i].Hash)
                           => listings'[k].first_seen = now ]_vars

\* C8 witness: a call made at one clock value is about to commit a listing
\* whose stored row is inactive, and a listing that has no row yet
C8_Witness ==
  /\ pc = "commit" /\ callTime = now
  /\ \E i \in 1..Len(batch) : \E k \in 1..Len(listings) :
       /\ listings[k].hash = batch[i].Hash
       /\ ~listings[k].active
       /\ txListings[k].active
       /\ txListings[k].last_seen = now
  /\ \E i \in 1..Len(batch) :
       /\ \A k \in 1..Len(listings) : listings[k].hash # batch[i].Hash
       /\ \E k \in 1..Len(txListings) :
            /\ txListings[k].hash = batch[i].Hash
            /\ txListings[k].first_seen = now

\* C9: stored rows only accumulate.  No step removes a listings row or
\* changes its hash, and no step removes or changes a price_history row.
C9_AppendOnly ==
  [][ /\ Len(listings') >= Len(listings)
      /\ \A k \in 1..Len(listings) : listings'[k].hash = listings[k].hash
      /\ Len(price_history') >= Len(price_history)
      /\ \A k \in 1..Len(price_history) :
           price_history'[k] = price_history[k] ]_vars

\* C9 witness: a swept listing is still stored, next to its recorded prices
C9_Witness ==
  /\ pc = "idle"
  /\ \E k \in 1..Len(listings) :
       /\ ~listings[k].active
       /\ Cardinality({j \in 1..Len(price_history) :
                         price_history[j].listing_hash = listings[k].hash}) >= 2

\* C10 (as claimed): the needs_review value of every committed listings row
\* equals validateListing of that row's current field values.
C10_ReviewReasonDerived ==
  \A k \in 1..Len(listings) :
    listings[k].needs_review = validateListing(RowListing(listings[k]))

\* C11 (as claimed): whatever the input mode (web, file, db), the row the
\* upsert writes or refreshes for a listing of the batch is stored under
\* ComputeHash of that listing's title, year, model, condition, frame size,
\* frame material, front travel and rear travel.
C11_StoredUnderComputedHash ==
  [][ (pc = "loop" /\ pc' = "history")
        => \E k \in 1..Len(txListings') :
             /\ txListings'[k].hash = ComputeHash(batch[idx])
             /\ txListings'[k].last_seen = now ]_vars

\* C12 (as claimed): ListingExistsWithDetails(hash) is true if and only if
\* listings holds a row of that hash whose description is not empty; it is
\* false for an unknown hash and for a stored listing without details.
C12_ExistsIffDetailsStored ==
  \A h \in {l.Hash : l \in Scraped} \cup {<<"?">>} :
    ListingExistsWithDetails(listings, h)
      <=> \E k \in 1..Len(listings) :
            listings[k].hash = h /\ listings[k].description # <<>>

\* the step of the call in flight, or the call itself, fails in this phase
FailingPhase ==
  CASE pc = "idle" -> "begin"
    [] pc = "prepare" -> "prepare"
    [] pc = "loop" /\ idx <= Len(batch) -> "insert"
    [] pc = "history" -> "history"
    [] pc = "loop" /\ idx > Len(batch) -> "inactive"
    [] pc = "commit" -> "commit"

\* the step returns an error to the caller of Export
ReturnsError ==
  /\ pc' = "idle"
  /\ err' \notin {Nil, "none", "running"}
  /\ pc # "idle" \/ err' # err

\* the context prefixes the errors of the phases before commit carry
PhaseContext ==
  [begin |-> ErrBegin, prepare |-> ErrPrepare, insert |-> ErrInsert,
   history |-> ErrHistory, inactive |-> ErrInactive]

\* C13 (as claimed): every failure of Export is returned with a context
\* prefix that identifies the failing phase: begin, prepare, listing insert,
\* price-history append, inactive sweep and commit have non-empty, pairwise
\* different prefixes.
C13_ErrorsIdentifyPhase ==
  [][ ReturnsError
        => /\ err' # ""
           /\ \A p \in DOMAIN PhaseContext :
                (err' = PhaseContext[p]) <=> (p = FailingPhase) ]_vars

\* C13 (amended): every failure of Export before commit is returned with a
\* non-empty context prefix, and these prefixes are pairwise different for
\* begin, prepare, listing insert, price-history append and inactive sweep;
\* a commit failure is returned as tx.Commit's error, with no prefix.
C13_PreCommitErrorsIdentifyPhase ==
  [][ ReturnsError
        => IF FailingPhase = "commit" THEN err' = ""
           ELSE /\ err' # ""
                /\ \A p \in DOMAIN PhaseContext :
                     (err' = PhaseContext[p]) <=> (p = FailingPhase) ]_vars

\* C13 witness: after a call that committed, a call failed in its commit
C13_Witness ==
  /\ pc = "idle" /\ err = ErrCommit
  /\ nExports = 1 /\ listings # <<>>

\* C14: ComputeHash depends only on title, year, model, condition, frame
\* size, frame material, front travel and rear travel: two calls on listings
\* equal in those fields (up to letter case in title, condition, frame size
\* and frame material, which are lower-cased) return the same hash whatever
\* the other fields hold
IdentityFields(l) ==
  <<ToLower(l.Title), l.Year, l.Model, ToLower(l.Condition),
    ToLower(l.FrameSize), ToLower(l.FrameMaterial), l.FrontTravel,
    l.RearTravel>>

C14_HashDependsOnIdentityOnly ==
  (/\ prev.fn = "ComputeHash"
   /\ call.fn = "ComputeHash"
   /\ IdentityFields(prev.arg) = IdentityFields(call.arg))
    => prev.ret = call.ret

\* two calls on listings that differ in price, currency, manufacturer, wheel
\* size, review reason, timestamps and details, with the same hash
C14_Witness ==
  /\ prev.fn = "ComputeHash"
  /\ call.fn = "ComputeHash"
  /\ IdentityFields(prev.arg) = IdentityFields(call.arg)
  /\ prev.arg.Price # call.arg.Price
  /\ prev.arg.Currency # call.arg.Currency
  /\ prev.arg.Manufacturer # call.arg.Manufacturer
  /\ prev.arg.WheelSize # call.arg.WheelSize
  /\ prev.arg.NeedsReview # call.arg.NeedsReview
  /\ prev.arg.LastSeen # call.arg.LastSeen
  /\ prev.arg.Details # call.arg.Details
  /\ prev.ret = call.ret

\* C15: hash sensitivity: two calls of ComputeHash on listings that differ
\* in one of the hashed fields, by more than letter case where the field is
\* lower-cased, return different hashes
C15_DistinctIdentityDistinctHash ==
  (/\ prev.fn = "ComputeHash"
   /\ call.fn = "ComputeHash"
   /\ IdentityFields(prev.arg) # IdentityFields(call.arg))
    => prev.ret # call.ret

\* C16: determinism: two calls of PostProcess on the same record with the
\* same exchange rate return identical listings
C16_PostProcessDeterministic ==
  (/\ prev.fn = "PostProcess"
   /\ call.fn = "PostProcess"
   /\ prev.arg = call.arg)
    => prev.ret = call.ret

\* C17: validateListing returns the field name of the first failing check
\* in the order price, year, manufacturer, model, currency, condition, frame
\* size, wheel size, front travel, rear travel, frame material, and the
\* empty string exactly when no check fails
CheckOrder ==
  << <<"p","r","i","c","e">>, <<"y","e","a","r">>,
     <<"m","a","n","u","f","a","c","t","u","r","e","r">>,
     <<"m","o","d","e","l">>, <<"c","u","r","r","e","n","c","y">>,
     <<"c","o","n","d","i","t","i","o","n">>,
     <<"f","r","a","m","e"," ","s","i","z","e">>,
     <<"w","h","e","e","l"," ","s","i","z","e">>,
     <<"f","r","o","n","t"," ","t","r","a","v","e","l">>,
     <<"r","e","a","r"," ","t","r","a","v","e","l">>,
     <<"f","r","a","m","e"," ","m","a","t","e","r","i","a","l">> >>

CheckFails(l) ==
  << l.Price \in {<<>>, <<"0">>},
     l.Year = <<>>,
     l.Manufacturer \in {<<>>, NoManufacturer},
     l.Model \in {<<>>, NoModelFound} \/ Contains(l.Model, Electric),
     l.Currency = <<>>,
     l.Condition = <<>>,
     l.FrameSize = <<>>,
     l.WheelSize = <<>>,
     l.FrontTravel = <<>>,
     l.RearTravel = <<>>,
     l.FrameMaterial = <<>> >>

C17_FirstFailingCheck ==
  call.fn = "validateListing" =>
    LET fails == CheckFails(call.arg)
        failing == {k \in 1..Len(CheckOrder) : fails[k]}
    IN  /\ (call.ret = <<>>) <=> (failing = {})
        /\ failing # {} =>
             \E k \in failing :
               /\ call.ret = CheckOrder[k]
               /\ \A j \in failing : k <= j

\* a listing without price and without year is reported for its price
C17_Witness ==
  /\ call.fn = "validateListing"
  /\ call.arg.Price = <<>>
  /\ call.arg.Year = <<>>
  /\ call.ret = <<"p","r","i","c","e">>

\* C18: extractModel returns, among all models of the resolved manufacturer
\* whose name appears in the title, one with the longest name, with
\* " Electric" appended when that model is electric, and NoModelFound when
\* no model name appears or no manufacturer was resolved
ModelResult(bike) ==
  IF bike.Purpose = ElectricPurpose
    THEN bike.Name \o <<" ">> \o Electric ELSE bike.Name

\* the models of manufacturer m whose name appears in the title, in the
\* widest sense the function matches in (case-insensitively, anywhere)
Appearing(m, title) ==
  IF m \notin DOMAIN bikeModels THEN {}
  ELSE { bikeModels[m][k] : k \in
           {i \in 1..Len(bikeModels[m]) :
              Contains(ToLower(title), ToLower(bikeModels[m][i].Name))} }

C18_LongestAppearingModelWins ==
  call.fn = "extractModel" =>
    \E order \in MapOrders :
      LET found == Appearing(extractManufacturer(call.arg, order), call.arg)
      IN  IF found = {} THEN call.ret = NoModelFound
          ELSE \E bike \in found :
                 /\ call.ret = ModelResult(bike)
                 /\ \A other \in found : Len(other.Name) <= Len(bike.Name)

C20_FirstYearInWindow ==
  call.fn = "extractYear" =>
    LET CurrentYear == 2026
        title == call.arg
        IsRun(k) ==
          /\ k + 4 <= Len(title)
          /\ WordBoundary(title, k)
          /\ \A i \in (k + 1)..(k + 4) : IsDigit(title[i])
          /\ WordBoundary(title, k + 4)
        InWindow(k) ==
          LET y == ParseDigits(SubSeq(title, k + 1, k + 4))
          IN  1980 <= y /\ y <= CurrentYear + 2
        at == {k \in 0..(Len(title) - 4) : IsRun(k) /\ InWindow(k)}
    IN  IF at = {} THEN call.ret = <<>>
        ELSE call.ret = SubSeq(title, First(at) + 1, First(at) + 4)

\* C21: extractCurrency returns CAD or USD in upper case when the code
\* occurs in the price text in any letter case, and the empty string when
\* neither code occurs
CodesIn(price) ==
  { code \in {CAD, USD} : Contains(ToLower(price), ToLower(code)) }

C21_CurrencyInAnyLetterCase ==
  call.fn = "extractCurrency" =>
    IF CodesIn(call.arg) = {} THEN call.ret = <<>>
    ELSE call.ret \in CodesIn(call.arg)

\* C22: convertPrice returns the empty string when the price text holds no
\* digits; otherwise the first digit run with its thousands separators
\* removed, multiplied by the rate and rounded when the currency is CAD,
\* unchanged for any other currency
FirstDigitRun(price) ==
  LET at == {k \in 1..Len(price) : IsDigit(price[k])}
  IN  IF at = {} THEN <<>>
      ELSE LET from == First(at)
               to == CHOOSE j \in from..Len(price) :
                       /\ \A i \in from..j : IsPriceChar(price[i])
                       /\ j = Len(price) \/ ~IsPriceChar(price[j + 1])
           IN  RemoveAll(SubSeq(price, from, to), ",")

C22_ConvertedFirstDigitRun ==
  call.fn = "convertPrice" =>
    LET run == FirstDigitRun(call.arg[1])
    IN  IF run = <<>> THEN call.ret = <<>>
        ELSE IF call.arg[2] = CAD
          THEN /\ call.ret # <<>>
               /\ ParseDigits(call.ret) * 2 * call.arg[3].den
                    \in (2 * ParseDigits(run) * call.arg[3].num - call.arg[3].den)
                          ..(2 * ParseDigits(run) * call.arg[3].num + call.arg[3].den)
          ELSE call.ret = run

\* C23: after a successful Export of the csv exporter the file at the good
\* path holds the header and exactly the listings with an empty review
\* reason, the file at the suspect path the header and exactly the listings
\* with a non-empty review reason, each in batch order
C23_TwoTargets ==
  (call.fn = "CSVExporter.Export" /\ call.ret = Nil) =>
    /\ GoodListingsPath \in DOMAIN files
    /\ SuspectListingsPath \in DOMAIN files
    /\ files[GoodListingsPath] = GoodLines(call.arg)
    /\ files[SuspectListingsPath] = SuspectLines(call.arg)

\* C24: Export performs its steps in one fixed order inside a single
\* transaction: begin, prepare, then for each listing in batch order the
\* upsert followed by that listing's price-history append, then the sweep
\* once after the last listing, then commit; it stops at the first failing
\* step and rolls back, and touches nothing when begin fails
C24_StepOrder ==
  /\ pc = "idle" =>
       /\ pc' \in {"idle", "prepare"}
       /\ UNCHANGED <<listings, price_history>>
       /\ pc' = "idle" => UNCHANGED <<txListings, txPriceHistory>>
       /\ pc' = "prepare" => idx' = 1 /\ err' = "running"
  /\ pc = "prepare" =>
       /\ pc' \in {"prepare", "loop", "idle"}
       /\ pc' = "loop" => UNCHANGED <<txListings, txPriceHistory, idx, batch>>
  /\ (pc = "loop" /\ idx <= Len(batch)) =>
       /\ pc' \in {"loop", "history", "idle"}
       /\ pc' = "loop" => UNCHANGED <<txListings, txPriceHistory, idx, batch>>
       /\ pc' = "history" =>
            /\ \E k \in 1..Len(txListings') :
                 txListings'[k].hash = batch[idx].Hash
            /\ UNCHANGED <<txPriceHistory, idx, batch>>
  /\ pc = "history" =>
       /\ pc' \in {"history", "loop", "idle"}
       /\ pc' = "history" => UNCHANGED <<txListings, txPriceHistory, idx, batch>>
       /\ pc' = "loop" =>
            /\ idx' = idx + 1
            /\ \/ txPriceHistory' = txPriceHistory
               \/ /\ Len(txPriceHistory') = Len(txPriceHistory) + 1
                  /\ txPriceHistory'[Len(txPriceHistory')].listing_hash
                       = batch[idx].Hash
            /\ UNCHANGED <<txListings, batch>>
  /\ (pc = "loop" /\ idx > Len(batch)) =>
       /\ pc' \in {"loop", "commit", "idle"}
       /\ pc' # "idle" => UNCHANGED <<txPriceHistory, idx, batch>>
       /\ pc' = "loop" => UNCHANGED txListings
  /\ pc = "commit" =>
       /\ pc' \in {"commit", "idle"}
       /\ pc' = "commit" => UNCHANGED <<txListings, txPriceHistory>>
  /\ (pc # "idle" /\ pc' = "idle") =>
       \/ /\ pc = "commit"
          /\ err' = Nil
          /\ listings' = txListings
          /\ price_history' = txPriceHistory
       \/ /\ err' \notin {Nil, "running", "none"}
          /\ UNCHANGED <<listings, price_history>>
  /\ pc' # "idle" => UNCHANGED <<listings, price_history>>

C24_FixedStepOrder == [][C24_StepOrder]_vars

\* an Export that failed at the upsert of a listing after an earlier Export
\* had committed: the store is as that earlier Export left it
C24_Witness ==
  /\ pc = "idle"
  /\ err = ErrInsert
  /\ nExports = 1
  /\ Len(listings) = 2

\* C25: immediately after every successful Export at time t a listings row
\* is active if and only if its last_seen is not older than t minus 7 days;
\* no row is ever inactive while its last_seen is within the threshold, and
\* first_seen <= last_seen holds for every row
C25_AfterCommit ==
  (pc = "commit" /\ pc' = "idle" /\ err' = Nil) =>
    \A k \in 1..Len(listings') :
      listings'[k].active <=> ~(listings'[k].last_seen < now' - Week)

C25_Rows ==
  \A k \in 1..Len(listings) :
    /\ ~listings[k].active => listings[k].last_seen < now - Week
    /\ listings[k].first_seen <= listings[k].last_seen

C25_ActiveIffRecentlySeen == [][C25_AfterCommit]_vars /\ []C25_Rows

\* a successful Export has left an inactive row beside an active one
C25_Witness ==
  /\ pc = "idle"
  /\ err = Nil
  /\ \E k \in 1..Len(listings) : ~listings[k].active
  /\ \E k \in 1..Len(listings) :
       listings[k].active /\ listings[k].first_seen < listings[k].last_seen

\* C26: the detail columns description, restrictions, seller_type and
\* original_post_date are written only when a hash is first inserted: every
\* step leaves them unchanged in every stored row, also when the incoming
\* listing carries a details block, and with them the answer of
\* ListingExistsWithDetails for every stored hash
DetailColumns(r) ==
  <<r.description, r.restrictions, r.seller_type, r.original_post_date>>

C26_DetailsFrame ==
  \A k \in 1..Len(listings) :
    /\ k <= Len(listings')
    /\ listings'[k].hash = listings[k].hash
    /\ DetailColumns(listings'[k]) = DetailColumns(listings[k])
    /\ ListingExistsWithDetails(listings', listings[k].hash)
         = ListingExistsWithDetails(listings, listings[k].hash)

C26_DetailsWrittenOnInsertOnly == [][C26_DetailsFrame]_vars

\* a row first stored without details that a later Export of the same
\* listing with details has refreshed (it carries that listing's url)
C26_Witness ==
  /\ pc = "idle"
  /\ err = Nil
  /\ \E k \in 1..Len(listings) :
       /\ listings[k].url = <<"u","9">>
       /\ listings[k].description = <<>>
       /\ listings[k].original_post_date = 0

\* C27: with detail scraping enabled the batch handed to Export is the
\* subsequence of the scraped listings for which the existence check
\* returned false without error and the page load and the detail scrape
\* succeeded; every other scraped listing is dropped, and Export does not
\* refresh its last_seen, price or url in that run
Passed(tbl, scraped, outcome, i) ==
  /\ outcome[i] = "ok"
  /\ ~ListingExistsWithDetails(tbl, scraped[i].Hash)

C27_BatchIsPassedSubsequence ==
  (pc = "prepare" /\ call.fn = "GetDetailedListings") =>
    LET scraped == call.arg[1]
        outcome == call.arg[2]
        kept == {i \in 1..Len(scraped) : Passed(listings, scraped, outcome, i)}
    IN  /\ Len(batch) = Cardinality(kept)
        /\ \E pos \in [1..Len(batch) -> kept] :
             /\ \A j, k \in 1..Len(batch) : j < k => pos[j] < pos[k]
             /\ \A j \in 1..Len(batch) :
                  batch[j] = [scraped[pos[j]] EXCEPT !.Details = SomeDetails]

C27_DroppedNotRefreshed ==
  (pc = "commit" /\ pc' = "idle" /\ err' = Nil
     /\ call.fn = "GetDetailedListings") =>
    LET scraped == call.arg[1]
        outcome == call.arg[2]
        keptHashes == {scraped[i].Hash : i \in
                         {j \in 1..Len(scraped) :
                            Passed(listings, scraped, outcome, j)}}
    IN  \A i \in 1..Len(scraped) : \A k \in 1..Len(listings) :
          (scraped[i].Hash \notin keptHashes
             /\ listings[k].hash = scraped[i].Hash) =>
            /\ listings'[k].last_seen = listings[k].last_seen
            /\ listings'[k].price = listings[k].price
            /\ listings'[k].url = listings[k].url

C27_DetailPassFiltersBatch ==
  []C27_BatchIsPassedSubsequence /\ [][C27_DroppedNotRefreshed]_vars

\* a run with details has committed at a later time than the row of a
\* dropped listing was last seen, beside a listing that passed
C27_Witness ==
  /\ pc = "idle"
  /\ err = Nil
  /\ call.fn = "GetDetailedListings"
  /\ call.ret # <<>>
  /\ \E i \in 1..Len(call.arg[1]) : \E k \in 1..Len(listings) :
       /\ \A j \in 1..Len(call.ret) : call.ret[j].Hash # call.arg[1][i].Hash
       /\ listings[k].hash = call.arg[1][i].Hash
       /\ listings[k].last_seen < now
       /\ listings[k].url # call.arg[1][i].URL

\* C28: when the same hash occurs more than once in one batch, a successful
\* Export leaves exactly one listings row for that hash, whose url and price
\* are those of the last occurrence in batch order, and appends at most one
\* price_history row per distinct price among those occurrences (for an
\* Export that takes less than 24 hours)
C28_AtCommit ==
  (pc = "commit" /\ pc' = "idle" /\ err' = Nil) =>
    \A i \in 1..Len(batch) :
      LET h == batch[i].Hash
          occurrences == {j \in 1..Len(batch) : batch[j].Hash = h}
          last == CHOOSE j \in occurrences : \A m \in occurrences : m <= j
          rows == {k \in 1..Len(listings') : listings'[k].hash = h}
          appended == {k \in (Len(price_history) + 1)..Len(price_history') :
                         price_history'[k].listing_hash = h}
      IN  /\ Cardinality(rows) = 1
          /\ \A k \in rows :
               /\ listings'[k].url = batch[last].URL
               /\ listings'[k].price = batch[last].Price
          /\ \A k \in appended :
               \E j \in occurrences : price_history'[k].price = batch[j].Price
          /\ now - callTime < Day =>
               \A k, m \in appended :
                 price_history'[k].price = price_history'[m].price => k = m

C28_RepeatedHashOneRow == [][C28_AtCommit]_vars

\* an Export of one bike at two prices has committed: one row with the last
\* price and url, two price observations
C28_Witness ==
  /\ pc = "idle"
  /\ err = Nil
  /\ nExports = 1
  /\ nUpserts = 2
  /\ Len(listings) = 1
  /\ listings[1].price = <<"0">>
  /\ listings[1].url = <<"u","2">>
  /\ Len(price_history) = 2

(***************************************************************************)
(* Two Export calls on one store whose transactions overlap.  Export takes  *)
(* no lock, so the second call's DB.Begin does not wait for the first.      *)
(* Each transaction reads the tables as committed when it began, with its   *)
(* own writes on top, and its commit adds its writes to the committed       *)
(* tables.                                                                  *)
(***************************************************************************)
\* the batches of two overlapping calls: each scrape found the same bike, at
\* one of two prices
OverlapBatches ==
  {b \in Batches : Len(b) = 1 /\ b[1].Currency = USD /\ b[1].FrameSize = <<"M">>}

\* the transactions in flight and the listings they carry
InFlight == {i \in 1..2 : txs[i].pc # "idle"}
Carrying == IF InFlight = {} THEN 0
            ELSE IF InFlight = {1, 2}
                   THEN Len(txs[1].batch) + Len(txs[2].batch)
                 ELSE Len(txs[CHOOSE i \in InFlight : TRUE].batch)

\* the price_history rows a transaction inserted since it began
Inserted(tx) ==
  SubSeq(tx.view.price_history, Len(tx.base.price_history) + 1,
         Len(tx.view.price_history))

\* the listings rows a transaction inserted or updated since it began
Written(tx) ==
  LET Touched(r) ==
        \A k \in 1..Len(tx.base.listings) : tx.base.listings[k] # r
  IN  SelectSeq(tx.view.listings, Touched)

\* a store whose price_history admits one row per hash and price
CommittedOverlappedUnique(c, tx) ==
  LET w == Written(tx)
      Mine(hash) == {k \in 1..Len(w) : w[k].hash = hash}
      Fresh(r) == \A k \in 1..Len(c.listings) : c.listings[k].hash # r.hash
      New(r) == \A k \in 1..Len(c.price_history) :
                   ~(/\ c.price_history[k].listing_hash = r.listing_hash
                     /\ c.price_history[k].price = r.price)
  IN  Tables([k \in 1..Len(c.listings) |->
                IF Mine(c.listings[k].hash) = {} THEN c.listings[k]
                ELSE w[CHOOSE m \in Mine(c.listings[k].hash) : TRUE]]
               \o SelectSeq(w, Fresh),
             c.price_history \o SelectSeq(Inserted(tx), New))

\* the committed tables after tx.Commit of a transaction that overlapped
\* others: its listings rows replace or extend the committed ones by hash
\* (hash is UNIQUE), and every price_history row it inserted is added, since
\* price_history has no constraint but its own id
CommittedOverlapped(c, tx) ==
  LET w == Written(tx)
      Mine(hash) == {k \in 1..Len(w) : w[k].hash = hash}
      Fresh(r) == \A k \in 1..Len(c.listings) : c.listings[k].hash # r.hash
  IN  Tables([k \in 1..Len(c.listings) |->
                IF Mine(c.listings[k].hash) = {} THEN c.listings[k]
                ELSE w[CHOOSE m \in Mine(c.listings[k].hash) : TRUE]]
               \o SelectSeq(w, Fresh),
             c.price_history \o Inserted(tx))

\* the wall clock advances while calls may be in flight
OverlapTick(d) ==
  /\ nTicks < MaxTicks
  /\ nTicks' = nTicks + 1
  /\ now' = now + d
  /\ UNCHANGED <<listings, price_history, txListings, txPriceHistory,
                 pc, batch, idx, callTime, err, nExports, nUpserts>>
  /\ UNCHANGED callVars

\* call i of Export begins with batch b: DB.Begin and tx.Prepare succeed.
\* Call 2 is the one that begins while call 1 is in flight
OverlapBegin(i, b) ==
  /\ txs[i].pc = "idle"
  /\ i = 2 => txs[1].pc # "idle"
  /\ nExports + Cardinality(InFlight) < MaxExports
  /\ nUpserts + Carrying + Len(b) <= MaxUpserts
  /\ txs' = [txs EXCEPT ![i] =
               [pc |-> "loop", batch |-> b, idx |-> 1,
                base |-> Tables(listings, price_history),
                view |-> Tables(listings, price_history)]]
  /\ UNCHANGED <<dbVars, call, prev, files>>

\* call i: stmt.Exec for the listing at the loop position
OverlapExecUpsert(i) ==
  /\ txs[i].pc = "loop"
  /\ txs[i].idx <= Len(txs[i].batch)
  /\ txs' = [txs EXCEPT
               ![i].view.listings =
                  Upsert(@, txs[i].batch[txs[i].idx], now),
               ![i].pc = "history"]
  /\ UNCHANGED <<dbVars, call, prev, files>>

\* call i: recordPriceHistory for the listing just upserted
OverlapRecordPriceHistory(i) ==
  /\ txs[i].pc = "history"
  /\ txs' = [txs EXCEPT
               ![i].view.price_history =
                  InsertPriceHistory(@, txs[i].batch[txs[i].idx], now),
               ![i].idx = @ + 1,
               ![i].pc = "loop"]
  /\ UNCHANGED <<dbVars, call, prev, files>>

\* call i: markInactiveListings, once the loop is over
OverlapMarkInactive(i) ==
  /\ txs[i].pc = "loop"
  /\ txs[i].idx > Len(txs[i].batch)
  /\ txs' = [txs EXCEPT
               ![i].view.listings = SweepInactive(@, now),
               ![i].pc = "commit"]
  /\ UNCHANGED <<dbVars, call, prev, files>>

\* call i: tx.Commit succeeds
OverlapCommit(i) ==
  /\ txs[i].pc = "commit"
  /\ LET db == CommittedOverlapped(Tables(listings, price_history), txs[i])
     IN  /\ listings' = db.listings
         /\ price_history' = db.price_history
  /\ nExports' = nExports + 1
  /\ nUpserts' = nUpserts + Len(txs[i].batch)
  /\ txs' = [txs EXCEPT ![i] = NoTx]
  /\ err' = Nil
  /\ UNCHANGED <<now, txListings, txPriceHistory, pc, batch, idx, callTime,
                 nTicks, call, prev, files>>

\* call i: a statement or the commit fails and the deferred tx.Rollback runs
OverlapAbort(i) ==
  /\ txs[i].pc # "idle"
  /\ txs' = [txs EXCEPT ![i] = NoTx]
  /\ err' = IF txs[i].pc = "history" THEN ErrHistory
            ELSE IF txs[i].pc = "commit" THEN ErrCommit
            ELSE IF txs[i].idx > Len(txs[i].batch) THEN ErrInactive
            ELSE ErrInsert
  /\ UNCHANGED <<now, listings, price_history, txListings, txPriceHistory,
                 pc, batch, idx, callTime, nExports, nUpserts, nTicks,
                 call, prev, files>>

NextOverlap ==
  \/ \E d \in InCallSteps : OverlapTick(d)
  \/ \E i \in 1..2 : \E b \in OverlapBatches : OverlapBegin(i, b)
  \/ \E i \in 1..2 : OverlapExecUpsert(i)
  \/ \E i \in 1..2 : OverlapRecordPriceHistory(i)
  \/ \E i \in 1..2 : OverlapMarkInactive(i)
  \/ \E i \in 1..2 : OverlapCommit(i)
  \/ \E i \in 1..2 : OverlapAbort(i)

SpecOverlap == Init /\ [][NextOverlap]_vars

\* C29: Export takes no lock and price_history has no uniqueness constraint:
\* a transaction that has handled a listing whose hash and price it did not
\* find in the tables as it began has inserted a row for it, whatever an
\* overlapping transaction has inserted, and its commit adds every row it
\* inserted to the committed table, after the rows the other has committed
C29_SameHashAndPrice(r, l) == r.listing_hash = l.Hash /\ r.price = l.Price

C29_EachInserts ==
  \A i \in InFlight : \A j \in 1..(txs[i].idx - 1) :
    LET l == txs[i].batch[j]
        seen == txs[i].base.price_history
        mine == Inserted(txs[i])
    IN  (\A k \in 1..Len(seen) : ~C29_SameHashAndPrice(seen[k], l))
          => \E k \in 1..Len(mine) : C29_SameHashAndPrice(mine[k], l)

C29_CommitAddsAll ==
  \A i \in 1..2 :
    (txs[i].pc = "commit" /\ txs'[i].pc = "idle" /\ err' = Nil)
      => price_history' = price_history \o Inserted(txs[i])

C30_Referenced(tbl, ph) ==
  \A k \in 1..Len(ph) : \E m \in 1..Len(tbl) : tbl[m].hash = ph[k].listing_hash

C30_PriceHistoryReferencesListing ==
  /\ C30_Referenced(listings, price_history)
  /\ pc # "idle" => C30_Referenced(txListings, txPriceHistory)

\* a committed state in which a listing swept inactive still has its price
\* observations
C30_Witness ==
  /\ pc = "idle"
  /\ err = Nil
  /\ \E m \in 1..Len(listings) :
       /\ ~listings[m].active
       /\ \E k \in 1..Len(price_history) :
            price_history[k].listing_hash = listings[m].hash

====
